---- MODULE Spec2Model ----
(***************************************************************************)
(* A model of the cyclotron trace tools.                                   *)
(*                                                                         *)
(*   server/src/event.rs   EventTree: add, filter (specification Spec)     *)
(*   f2/src/spans.rs       spans::State: add_event, select                 *)
(*   f2/src/main.rs        Context: set_file, render, schedule_render      *)
(*                         (specification SpecLoad)                        *)
(***************************************************************************)
EXTENDS Integers, Sequences, FiniteSets, TLC

(***************************************************************************)
(* Bounds of the model.                                                    *)
(***************************************************************************)
\* SpanIds are 0..MaxId.
MaxId == 2
\* Timestamps are 0..MaxTs.
MaxTs == 1
\* At most MaxAdds calls of EventTree::add are accepted (return Ok).
MaxAdds == 3
\* At most MaxWakeups of them are Wakeup events.
MaxWakeups == 1
\* At most MaxAddsAll calls are accepted where add is given any payload.
MaxAddsAll == 2
\* A file holds at most MaxItems items.
MaxItems == 2
\* At most MaxReads files are being read at a time.
MaxReads == 1
\* The span ids of the events given to the span reconstructor are
\* 0..MaxSpanId, and at most MaxEvents events are given to it.
MaxSpanId == 1
MaxEvents == 3
\* lay_out is given at most MaxSpans spans, with timestamps 0..MaxLayoutTs.
MaxSpans == 3
MaxLayoutTs == 2
\* At most MaxEventsOne events on the one span id 0 are given to the span
\* reconstructor.
MaxEventsOne == 4
\* A Database holds at most MaxTasks tasks, with timestamps 0..MaxGlTs and at
\* most MaxOnCpu on-CPU spans each.
MaxTasks == 3
MaxGlTs == 2
MaxOnCpu == 1
\* A task of a well-formed Database has at most MaxSeparated on-CPU spans.
MaxSeparated == 2
\* The timestamps of the well-formed Databases are 0..MaxSeparatedTs.
MaxSeparatedTs == 1
\* A deeper Database holds at most MaxDeepTasks tasks, with timestamps
\* 0..MaxDeepTs.
MaxDeepTasks == 4
MaxDeepTs == 1
\* A Chunk on its own holds at most MaxChunkLen intervals, of timestamps
\* 0..MaxChunkTs.
MaxChunkLen == 3
\* The animation-frame times are 0..MaxFrameTime.
MaxFrameTime == 1
\* The trees built of payloads in several texts hold at most MaxTextAdds
\* events; a Wakeup event has MaxForms + 1 texts.
MaxTextAdds == 3
MaxForms == 1
MaxChunkTs == 4

SpanIds == 0..MaxId
Timestamps == 0..MaxTs
Names == {"Niko", "Control"}

\* Option<T>: None is the empty sequence, Some(x) the one-element sequence.
None == << >>
Some(x) == << x >>

(***************************************************************************)
(* server/src/event.rs: the wire events.  A payload (buf) is the JSON text *)
(* of one event; it is modelled by the record of the fields the text       *)
(* holds, and a text that does not parse by a record of type "Malformed".  *)
(***************************************************************************)
ThreadStartBufs ==
    [type : {"ThreadStart"}, id : SpanIds, name : Names, ts : Timestamps]

SpanStartBufs ==
    [type : {"AsyncStart", "SyncStart"}, id : SpanIds, parent_id : SpanIds,
     name : Names, ts : Timestamps]

NodeEventBufs ==
    [type : {"AsyncOnCPU", "AsyncOffCPU", "AsyncEnd", "SyncEnd", "ThreadEnd"},
     id : SpanIds, ts : Timestamps]

WakeupBufs ==
    [type : {"Wakeup"}, waking_span : SpanIds, parked_span : SpanIds,
     ts : Timestamps]

MalformedBufs == {[type |-> "Malformed"]}

Bufs == ThreadStartBufs \cup SpanStartBufs \cup NodeEventBufs
            \cup WakeupBufs \cup MalformedBufs

\* serde_json::from_str(&buf): Ok(event) or Err.
from_str(buf) ==
    IF buf.type = "Malformed" THEN [ok |-> FALSE] ELSE [ok |-> TRUE, event |-> buf]

\* EventResult { buf, ts }
EventResult(buf, ts) == [buf |-> buf, ts |-> ts]

VARIABLES
    \* The EventTree: a record of its fields slab (SpanId -> EventNode, a
    \* function on the ids that have a node), roots, wakeups, goal_names,
    \* goal_spans, hide_wakeups_from_names, hide_wakeups_from_spans.
    tree,
    \* The last call made on the tree (new, add with its payload, filter) and
    \* what it returned.
    call,
    ret,
    \* f2's Inner: spans (the spans::State), zoom, render_scheduled.
    spans,
    zoom,
    render_scheduled,
    \* The browser's side of f2: the number of animation-frame callbacks
    \* requested and not yet run, and of files being read by a FileReader.
    frames,
    reads,
    \* The events given to add_event on `spans` since State::new, in the
    \* order they were given.
    trace

f2Vars == << spans, zoom, render_scheduled, frames, reads, trace >>
vars == << tree, call, ret, spans, zoom, render_scheduled, frames, reads, trace >>

\* HashMap::insert
Put(f, k, v) == [x \in DOMAIN f \cup {k} |-> IF x = k THEN v ELSE f[x]]

\* EventTree::new_hide_wakeups(goals, hide_wakeups_from)
new_hide_wakeups(goals, hide_wakeups_from) ==
    [slab |-> << >>,
     roots |-> {},
     wakeups |-> {},
     goal_names |-> goals,
     goal_spans |-> {},
     hide_wakeups_from_names |-> hide_wakeups_from,
     hide_wakeups_from_spans |-> {}]

\* The results of add: Ok(()), Err((error, buf)), or a panic (assert!, expect).
\* Each carries the tree as the call left it.
Ok(t) == [tag |-> "Ok", tree |-> t]
Err(t, msg, buf) == [tag |-> "Err", err |-> msg, buf |-> buf, tree |-> t]
Panic(t, msg) == [tag |-> "Panic", err |-> msg, tree |-> t]

\* add_node taking every node for a goal span.
add_node_every_goal(t, id, buf, name, ts, parent) ==
    IF id \in DOMAIN t.slab
    THEN Err(t, "duplicate node", buf)
    ELSE LET t1 == [t EXCEPT !.goal_spans = @ \cup {id}]
             t2 == IF name \in t1.hide_wakeups_from_names
                   THEN [t1 EXCEPT !.hide_wakeups_from_spans = @ \cup {id}]
                   ELSE t1
             node == [events |-> << EventResult(buf, ts) >>,
                      name |-> name,
                      parent |-> parent,
                      children |-> << >>]
         IN  Ok([t2 EXCEPT !.slab = Put(@, id, node)])

\* add_node without the goal_names.is_empty() test.
add_node_named_goals_only(t, id, buf, name, ts, parent) ==
    IF id \in DOMAIN t.slab
    THEN Err(t, "duplicate node", buf)
    ELSE LET t1 == IF name \in t.goal_names
                   THEN [t EXCEPT !.goal_spans = @ \cup {id}]
                   ELSE t
             t2 == IF name \in t1.hide_wakeups_from_names
                   THEN [t1 EXCEPT !.hide_wakeups_from_spans = @ \cup {id}]
                   ELSE t1
             node == [events |-> << EventResult(buf, ts) >>,
                      name |-> name,
                      parent |-> parent,
                      children |-> << >>]
         IN  Ok([t2 EXCEPT !.slab = Put(@, id, node)])

\* EventTree::add_node
add_node(t, id, buf, name, ts, parent) ==
    IF id \in DOMAIN t.slab
    THEN Err(t, "duplicate node", buf)
    ELSE LET t1 == IF name \in t.goal_names \/ t.goal_names = {}
                   THEN [t EXCEPT !.goal_spans = @ \cup {id}]
                   ELSE t
             t2 == IF name \in t1.hide_wakeups_from_names
                   THEN [t1 EXCEPT !.hide_wakeups_from_spans = @ \cup {id}]
                   ELSE t1
             node == [events |-> << EventResult(buf, ts) >>,
                      name |-> name,
                      parent |-> parent,
                      children |-> << >>]
         IN  Ok([t2 EXCEPT !.slab = Put(@, id, node)])

\* The ThreadStart arm without roots.insert.
AddThreadStart_not_root(t, buf, e) ==
    add_node(t, e.id, buf, e.name, e.ts, None)

\* add, the ThreadStart arm: add new root.
AddThreadStart(t, buf, e) ==
    LET r == add_node(t, e.id, buf, e.name, e.ts, None)
    IN  IF r.tag # "Ok" THEN r
        ELSE Ok([r.tree EXCEPT !.roots = @ \cup {e.id}])

\* The assert! that opens the AsyncStart | SyncStart arm.
AssertNotDuplicate(t, id) == id \notin DOMAIN t.slab

AddSpanStart_keeps_parent(t, buf, e) ==
    IF ~AssertNotDuplicate(t, e.id)
    THEN Panic(t, "duplicate node")
    ELSE IF e.parent_id \in DOMAIN t.slab
    THEN LET t1 == [t EXCEPT !.slab[e.parent_id].children = Append(@, e.id)]
         IN  add_node(t1, e.id, buf, e.name, e.ts, Some(e.parent_id))
    ELSE LET r == add_node(t, e.id, buf, e.name, e.ts, Some(e.parent_id))
         IN  IF r.tag # "Ok" THEN r
             ELSE Ok([r.tree EXCEPT !.roots = @ \cup {e.id}])

\* add, the AsyncStart | SyncStart arm: add new node with a parent.
AddSpanStart(t, buf, e) ==
    IF ~AssertNotDuplicate(t, e.id)
    THEN Panic(t, "duplicate node")
    ELSE IF e.parent_id \in DOMAIN t.slab
    THEN LET t1 == [t EXCEPT !.slab[e.parent_id].children = Append(@, e.id)]
         IN  add_node(t1, e.id, buf, e.name, e.ts, Some(e.parent_id))
    ELSE LET r == add_node(t, e.id, buf, e.name, e.ts, None)
         IN  IF r.tag # "Ok" THEN r
             ELSE Ok([r.tree EXCEPT !.roots = @ \cup {e.id}])

AddNodeEvent_drops(t, buf, e) ==
    IF e.id \notin DOMAIN t.slab
    THEN Ok(t)
    ELSE Ok([t EXCEPT !.slab[e.id].events = Append(@, EventResult(buf, e.ts))])

AddNodeEvent_in_front(t, buf, e) ==
    IF e.id \notin DOMAIN t.slab
    THEN Panic(t, "nodeless event")
    ELSE Ok([t EXCEPT !.slab[e.id].events = << EventResult(buf, e.ts) >> \o @])

\* add, the AsyncOnCPU | AsyncOffCPU | AsyncEnd | SyncEnd | ThreadEnd arm:
\* add event to existing node in the tree.
AddNodeEvent(t, buf, e) ==
    IF e.id \notin DOMAIN t.slab
    THEN Panic(t, "nodeless event")
    ELSE Ok([t EXCEPT !.slab[e.id].events = Append(@, EventResult(buf, e.ts))])

\* add, the Wakeup arm: add new wakeup.
AddWakeup(t, buf, e) ==
    Ok([t EXCEPT !.wakeups = @ \cup
            {[event |-> EventResult(buf, e.ts),
              waking_span |-> e.waking_span,
              parked_span |-> e.parked_span]}])

\* EventTree::add
add(t, buf) ==
    LET parsed == from_str(buf)
    IN  IF ~parsed.ok THEN Err(t, "json", buf)
        ELSE LET e == parsed.event
             IN  CASE e.type = "ThreadStart" -> AddThreadStart(t, buf, e)
                   [] e.type \in {"AsyncStart", "SyncStart"} -> AddSpanStart(t, buf, e)
                   [] e.type = "Wakeup" -> AddWakeup(t, buf, e)
                   [] OTHER -> AddNodeEvent(t, buf, e)

(***************************************************************************)
(* EventTree::filter                                                       *)
(***************************************************************************)
\* A walk w holds filter's seen_ids and result.
RECURSIVE add_ancestors(_, _, _)
RECURSIVE add_children(_, _, _)
RECURSIVE add_children_from(_, _, _, _)
RECURSIVE wakeup_loop(_, _, _, _)

\* add_ancestors that stops at the parent.
add_ancestors_parent_only(t, w, ancestor_id) ==
    IF ancestor_id = None THEN w
    ELSE LET id == ancestor_id[1]
         IN  IF id \in w.seen_ids THEN w
             ELSE [seen_ids |-> w.seen_ids \cup {id},
                   result |-> w.result \o t.slab[id].events]

\* EventTree::add_ancestors
add_ancestors(t, w, ancestor_id) ==
    IF ancestor_id = None THEN w
    ELSE LET id == ancestor_id[1]
         IN  IF id \in w.seen_ids THEN w
             ELSE LET node == t.slab[id]
                      w1 == [w EXCEPT !.seen_ids = @ \cup {id}]
                      \* Add after iterating, to ensure parent-first order.
                      w2 == add_ancestors(t, w1, node.parent)
                  IN  [w2 EXCEPT !.result = @ \o node.events]

\* add_children without the test of seen_ids.
add_children_unguarded(t, w, id) ==
    LET node == t.slab[id]
        w1 == [seen_ids |-> w.seen_ids \cup {id},
               result |-> w.result \o node.events]
    IN  add_children_from(t, w1, node.children, 1)

\* EventTree::add_children; add_children_from is its loop over
\* node.children from index i on.
add_children(t, w, id) ==
    IF id \in w.seen_ids THEN w
    ELSE LET node == t.slab[id]
             \* Add before iterating, to ensure parent-first order.
             w1 == [seen_ids |-> w.seen_ids \cup {id},
                    result |-> w.result \o node.events]
         IN  add_children_from(t, w1, node.children, 1)

add_children_from(t, w, children, i) ==
    IF i > Len(children) THEN w
    ELSE add_children_from(t, add_children(t, w, children[i]), children, i + 1)

\* The orders in which a HashSet may be iterated.
Orders(S) ==
    {o \in [1..Cardinality(S) -> S] : \A i, j \in DOMAIN o : i # j => o[i] # o[j]}

\* filter, the loop over goal_spans in the order given.
RECURSIVE goal_loop(_, _, _, _)
goal_loop(t, w, order, i) ==
    IF i > Len(order) THEN w
    ELSE LET id == order[i]
             node == t.slab[id]
             \* Process this node's ancestors.
             w1 == add_ancestors(t, w, node.parent)
             \* Add all its children, and children's children, and so on.
             w2 == add_children(t, w1, id)
         IN  goal_loop(t, w2, order, i + 1)

\* wakeup_loop that tests the waking span alone.
wakeup_loop_waking_only(t, w, order, i) ==
    IF i > Len(order) THEN w
    ELSE LET wakeup == order[i]
             w1 == IF /\ wakeup.waking_span \in w.seen_ids
                      /\ wakeup.waking_span \notin t.hide_wakeups_from_spans
                   THEN [w EXCEPT !.result = Append(@, wakeup.event)]
                   ELSE w
         IN  wakeup_loop(t, w1, order, i + 1)

\* filter, the loop over wakeups in the order given.
wakeup_loop(t, w, order, i) ==
    IF i > Len(order) THEN w
    ELSE LET wakeup == order[i]
             w1 == IF /\ wakeup.waking_span \in w.seen_ids
                      /\ wakeup.parked_span \in w.seen_ids
                      /\ wakeup.waking_span \notin t.hide_wakeups_from_spans
                   THEN [w EXCEPT !.result = Append(@, wakeup.event)]
                   ELSE w
         IN  wakeup_loop(t, w1, order, i + 1)

\* The order reversed.
Ge(a, b) == a.ts >= b.ts

\* impl Ord for EventResult: a <= b, by ts alone.
Le(a, b) == a.ts <= b.ts

\* Vec::sort: a stable sort by Ord.  insert puts x after every element
\* that is not greater than it.
RECURSIVE insert(_, _)
insert(s, x) ==
    IF s = << >> THEN << x >>
    ELSE IF Le(s[Len(s)], x) THEN Append(s, x)
    ELSE Append(insert(SubSeq(s, 1, Len(s) - 1), x), s[Len(s)])

RECURSIVE sort_from(_, _, _)
sort_from(acc, s, i) ==
    IF i > Len(s) THEN acc ELSE sort_from(insert(acc, s[i]), s, i + 1)

sort(s) == sort_from(<< >>, s, 1)

\* EventTree::filter, with the iteration orders of the two HashSets.
filter(t, goal_order, wakeup_order) ==
    LET w0 == [seen_ids |-> {}, result |-> << >>]
        w1 == goal_loop(t, w0, goal_order, 1)
        w2 == wakeup_loop(t, w1, wakeup_order, 1)
        sorted == sort(w2.result)
    IN  [seen_ids |-> w2.seen_ids,
         result |-> [i \in DOMAIN sorted |-> sorted[i].buf]]


(***************************************************************************)
(* f2/src/event.rs and f2/src/spans.rs: the span reconstructor.            *)
(***************************************************************************)
Metadata == {"null"}
Outcomes == {"Success", "Cancelled", "Error"}

\* f2's TraceEvent, by variant.
F2StartEvents ==
    [type : {"AsyncStart", "SyncStart"}, name : Names, id : SpanIds,
     parent_id : SpanIds, ts : Timestamps, metadata : Metadata]
        \cup [type : {"ThreadStart"}, name : Names, id : SpanIds, ts : Timestamps]

F2CpuEvents == [type : {"AsyncOnCPU", "AsyncOffCPU"}, id : SpanIds, ts : Timestamps]

F2EndEvents ==
    [type : {"AsyncEnd"}, id : SpanIds, ts : Timestamps, outcome : Outcomes]
        \cup [type : {"SyncEnd", "ThreadEnd"}, id : SpanIds, ts : Timestamps]

F2WakeupEvents ==
    [type : {"Wakeup"}, waking_span : SpanIds, parked_span : SpanIds,
     ts : Timestamps]

F2Events == F2StartEvents \cup F2CpuEvents \cup F2EndEvents \cup F2WakeupEvents

\* TraceEvent::ts
event_ts(event) == event.ts

\* TraceEvent::id
event_id(event) == IF event.type = "Wakeup" THEN None ELSE Some(event.id)

event_parent_id_none(event) == None

\* TraceEvent::parent_id
event_parent_id(event) ==
    IF event.type \in {"AsyncStart", "SyncStart"} THEN Some(event.parent_id) ELSE None

\* State::new
State_new == [active_spans |-> << >>, finished_spans |-> << >>, end_time |-> 0]

bump_time_latest(s, ts) == [s EXCEPT !.end_time = ts]

\* State::bump_time
bump_time(s, ts) == IF ts > s.end_time THEN [s EXCEPT !.end_time = ts] ELSE s

\* HashMap::remove
Remove(f, k) == [x \in DOMAIN f \ {k} |-> f[x]]

\* The message of an ActiveSpan: format!("{} {}", name, metadata), or the
\* name of a thread.
start_message(event) ==
    IF event.type = "ThreadStart" THEN << event.name >>
    ELSE << event.name, " ", event.metadata >>

finished_style_by_start(start, event) ==
    CASE start.type = "AsyncStart" ->
            (IF event.type # "AsyncEnd" THEN "return" ELSE "AsyncSuccess")
      [] start.type = "SyncStart" -> "SyncFinished"
      [] start.type = "ThreadStart" -> "ThreadFinished"
      [] OTHER -> "return"

\* The style of the span that `event` ends, opened by `start`; "return" where
\* the match returns from add_event.
finished_style(start, event) ==
    CASE start.type = "AsyncStart" ->
            (IF event.type # "AsyncEnd" THEN "return"
             ELSE IF event.outcome = "Success" THEN "AsyncSuccess"
             ELSE IF event.outcome = "Cancelled" THEN "AsyncCancel"
             ELSE "AsyncError")
      [] start.type = "SyncStart" -> "SyncFinished"
      [] start.type = "ThreadStart" -> "ThreadFinished"
      [] OTHER -> "return"

\* add_event, the AsyncStart | SyncStart | ThreadStart arm.
start_arm(s, event) ==
    [s EXCEPT !.active_spans =
        Put(@, event.id, [wakeups |-> << >>,
                          message |-> start_message(event),
                          event |-> event])]

end_arm_finishes_unknown(s, event) ==
    [s EXCEPT !.active_spans = Remove(@, event.id),
              !.finished_spans = Append(@,
                    [id |-> event.id,
                     parent_id |-> None,
                     start |-> event.ts,
                     end |-> event.ts,
                     style |-> "SyncFinished",
                     message |-> << >>,
                     wakeups |-> << >>])]

\* add_event, the AsyncEnd | SyncEnd | ThreadEnd arm.
end_arm(s, event) ==
    IF event.id \in DOMAIN s.active_spans
    THEN LET start == s.active_spans[event.id]
             s1 == [s EXCEPT !.active_spans = Remove(@, event.id)]
             style == finished_style(start.event, event)
         IN  IF style = "return" THEN s1
             ELSE [s1 EXCEPT !.finished_spans = Append(@,
                    [id |-> event.id,
                     parent_id |-> event_parent_id(start.event),
                     start |-> event_ts(start.event),
                     end |-> event.ts,
                     style |-> style,
                     message |-> start.message,
                     wakeups |-> start.wakeups])]
    ELSE s

wakeup_arm_on_parked(s, event) ==
    IF event.parked_span \in DOMAIN s.active_spans
    THEN [s EXCEPT !.active_spans[event.parked_span].wakeups =
            Append(@, [target |-> event.waking_span, ts |-> event.ts])]
    ELSE s

\* add_event, the Wakeup arm.
wakeup_arm(s, event) ==
    IF event.waking_span \in DOMAIN s.active_spans
    THEN [s EXCEPT !.active_spans[event.waking_span].wakeups =
            Append(@, [target |-> event.parked_span, ts |-> event.ts])]
    ELSE s

\* State::add_event
add_event(s0, event) ==
    LET s == bump_time(s0, event_ts(event))
    IN  CASE event.type \in {"AsyncStart", "SyncStart", "ThreadStart"} ->
                start_arm(s, event)
          [] event.type \in {"AsyncOnCPU", "AsyncOffCPU"} -> s
          [] event.type \in {"AsyncEnd", "SyncEnd", "ThreadEnd"} ->
                end_arm(s, event)
          [] event.type = "Wakeup" -> wakeup_arm(s, event)

\* State::len
State_len(s) == Cardinality(DOMAIN s.active_spans) + Len(s.finished_spans)

in_progress_empty(active, ts) ==
    [id |-> event_id(active.event)[1],
     parent_id |-> event_parent_id(active.event),
     start |-> event_ts(active.event),
     end |-> event_ts(active.event),
     style |-> CASE active.event.type = "AsyncStart" -> "AsyncInProgress"
                 [] active.event.type = "SyncStart" -> "SyncInProgress"
                 [] active.event.type = "ThreadStart" -> "ThreadInProgress",
     message |-> active.message,
     wakeups |-> active.wakeups]

\* ActiveSpan::in_progress; the match panics on any other kind of event,
\* which no ActiveSpan holds.
in_progress(active, ts) ==
    [id |-> event_id(active.event)[1],
     parent_id |-> event_parent_id(active.event),
     start |-> event_ts(active.event),
     end |-> ts,
     style |-> CASE active.event.type = "AsyncStart" -> "AsyncInProgress"
                 [] active.event.type = "SyncStart" -> "SyncInProgress"
                 [] active.event.type = "ThreadStart" -> "ThreadInProgress",
     message |-> active.message,
     wakeups |-> active.wakeups]

\* State::select, the iterator collected: the active spans that start
\* before `end`, in the order `order` in which the HashMap yields them, then
\* the finished spans that overlap the window.
RECURSIVE select_active(_, _, _, _)
select_active(s, order, i, end) ==
    IF i > Len(order) THEN << >>
    ELSE LET e == s.active_spans[order[i]]
         IN  (IF event_ts(e.event) < end THEN << in_progress(e, end) >> ELSE << >>)
                \o select_active(s, order, i + 1, end)

select(s, order, start, end) ==
    LET overlaps(sp) == sp.start < end /\ sp.end > start
    IN  select_active(s, order, 1, end) \o SelectSeq(s.finished_spans, overlaps)

(***************************************************************************)
(* f2/src/layout.rs: the row layout (Variant A).  A Path is a sequence of  *)
(* rows; a BTreeSet or BTreeMap is a set or function, iterated in the      *)
(* order of its keys.                                                      *)
(***************************************************************************)
\* Sweep::new
Sweep_new == [next_free |-> 0, free |-> {}, ends |-> {}]

\* The order of the (Duration, u16) pairs of `ends`.
PairLess(a, b) == a[1] < b[1] \/ (a[1] = b[1] /\ a[2] < b[2])

\* The first element of a BTreeSet: self.ends.iter().next(),
\* self.free.iter().next().
FirstEnd(ends) == CHOOSE a \in ends : \A b \in ends \ {a} : PairLess(a, b)

\* The last element instead.
LastRow(free) == CHOOSE r \in free : \A q \in free : r >= q

FirstRow(free) == CHOOSE r \in free : \A q \in free : r <= q

\* Sweep::alloc, the while loop: the rows whose end is before the start of
\* the span are moved from `ends` to `free`, least end first.
RECURSIVE release(_, _)
release(sweep, sp) ==
    IF sweep.ends = {} THEN sweep
    ELSE LET first == FirstEnd(sweep.ends)
         IN  IF first[1] >= sp.start THEN sweep
             ELSE release([sweep EXCEPT !.ends = @ \ {first},
                                        !.free = @ \cup {first[2]}], sp)

\* Sweep::alloc: the sweep after the call and the row returned.
alloc(sweep0, sp) ==
    LET sweep == release(sweep0, sp)
    IN  IF sweep.free # {}
        THEN LET row == FirstRow(sweep.free)
             IN  [sweep |-> [sweep EXCEPT !.free = @ \ {row},
                                          !.ends = @ \cup {<< sp.end, row >>}],
                  row |-> row]
        ELSE LET row == sweep.next_free
             IN  [sweep |-> [sweep EXCEPT !.next_free = @ + 1,
                                          !.ends = @ \cup {<< sp.end, row >>}],
                  row |-> row]

\* The turn of the loop with a span of unknown parent put under row 0.
lay_out_span_under_first_row(st, sp) ==
    LET parent_path ==
            IF sp.parent_id = None THEN << >>
            ELSE IF sp.parent_id[1] \in DOMAIN st.allocations
            THEN st.allocations[sp.parent_id[1]]
            ELSE << 0 >>
        sweep == IF parent_path \in DOMAIN st.sweeps
                 THEN st.sweeps[parent_path] ELSE Sweep_new
        a == alloc(sweep, sp)
    IN  [allocations |-> Put(st.allocations, sp.id, Append(parent_path, a.row)),
         sweeps |-> Put(st.sweeps, parent_path, a.sweep)]

\* lay_out, one turn of the first loop: the allocations and the sweeps
\* after the span sp is given its path.
lay_out_span(st, sp) ==
    LET parent_path ==
            IF sp.parent_id # None /\ sp.parent_id[1] \in DOMAIN st.allocations
            THEN st.allocations[sp.parent_id[1]]
            ELSE << >>
        sweep == IF parent_path \in DOMAIN st.sweeps
                 THEN st.sweeps[parent_path] ELSE Sweep_new
        a == alloc(sweep, sp)
    IN  [allocations |-> Put(st.allocations, sp.id, Append(parent_path, a.row)),
         sweeps |-> Put(st.sweeps, parent_path, a.sweep)]

\* lay_out, the first loop over the first n of the sorted spans.
RECURSIVE lay_out_loop(_, _)
lay_out_loop(spans_, n) ==
    IF n = 0 THEN [allocations |-> << >>, sweeps |-> << >>]
    ELSE lay_out_span(lay_out_loop(spans_, n - 1), spans_[n])

\* The order of the keys of a BTreeMap<Path, _>: that of slices, element by
\* element, a proper prefix before its extensions.
RECURSIVE PathLess(_, _)
PathLess(p, q) ==
    IF q = << >> THEN FALSE
    ELSE IF p = << >> THEN TRUE
    ELSE IF Head(p) # Head(q) THEN Head(p) < Head(q)
    ELSE PathLess(Tail(p), Tail(q))

rows_in_order_of_ids(allocations) ==
    LET paths == {allocations[id] : id \in DOMAIN allocations}
        first(p) == CHOOSE id \in DOMAIN allocations :
                        /\ allocations[id] = p
                        /\ \A other \in DOMAIN allocations :
                                allocations[other] = p => id <= other
    IN  [p \in paths |-> Cardinality({q \in paths : first(q) < first(p)})]

\* lay_out, the map `rows`: the paths allocated, each with its place in the
\* order of the keys.
rows_of(allocations) ==
    LET paths == {allocations[id] : id \in DOMAIN allocations}
    IN  [p \in paths |-> Cardinality({q \in paths : PathLess(q, p)})]

\* lay_out, on the spans as spans.sort_unstable_by_key leaves them.
lay_out(sorted) ==
    LET allocations == lay_out_loop(sorted, Len(sorted)).allocations
        rows == rows_of(allocations)
    IN  [spans |-> [i \in DOMAIN sorted |->
                        [span |-> sorted[i], row |-> rows[allocations[sorted[i].id]]]],
         total_rows |-> Cardinality(DOMAIN rows)]

(***************************************************************************)
(* glviewer/src/layout.rs: the row layout (Variant B).  A Vec is a         *)
(* sequence; a TaskId, ThreadId or RowId n indexes the element n + 1.  An  *)
(* operation that may panic yields a record with ok = FALSE when it does.  *)
(***************************************************************************)
\* Chunk::new
Chunk_new == [begins |-> << >>, ends |-> << >>, tasks |-> << >>]

\* [u64]::binary_search on a sorted vector without duplicates: Ok(index) of
\* the element found, or Err(index) of the place where it would be put.
binary_search(v, x) ==
    IF \E i \in DOMAIN v : v[i] = x
    THEN [tag |-> "Ok", index |-> (CHOOSE i \in DOMAIN v : v[i] = x) - 1]
    ELSE [tag |-> "Err", index |-> Cardinality({i \in DOMAIN v : v[i] < x})]

\* Chunk::has_overlap, were the search made among the begins.
has_overlap_by_begin(chunk, span) ==
    LET found == binary_search(chunk.begins, span.begin)
    IN  IF found.tag = "Err" /\ found.index = Len(chunk.begins) THEN FALSE
        ELSE chunk.begins[found.index + 1] <= span.end

\* Chunk::has_overlap with < for <=.
has_overlap_strict(chunk, span) ==
    LET found == binary_search(chunk.ends, span.begin)
    IN  IF found.tag = "Err" /\ found.index = Len(chunk.ends) THEN FALSE
        ELSE chunk.begins[found.index + 1] < span.end

\* Chunk::has_overlap
has_overlap(chunk, span) ==
    LET found == binary_search(chunk.ends, span.begin)
    IN  IF found.tag = "Err" /\ found.index = Len(chunk.ends) THEN FALSE
        ELSE chunk.begins[found.index + 1] <= span.end

\* Vec::insert
InsertAt(v, index, x) == SubSeq(v, 1, index) \o << x >> \o SubSeq(v, index + 1, Len(v))

\* Chunk::add
Chunk_add(chunk, span, tid) ==
    LET found == binary_search(chunk.ends, span.begin)
    IN  IF found.tag = "Ok" THEN [ok |-> FALSE, chunk |-> chunk]
        ELSE IF found.index = Len(chunk.ends)
        THEN [ok |-> TRUE,
              chunk |-> [begins |-> Append(chunk.begins, span.begin),
                         ends |-> Append(chunk.ends, span.end),
                         tasks |-> Append(chunk.tasks, tid)]]
        ELSE IF ~(chunk.begins[found.index + 1] > span.end)
        THEN [ok |-> FALSE, chunk |-> chunk]
        ELSE [ok |-> TRUE,
              chunk |-> [begins |-> InsertAt(chunk.begins, found.index, span.begin),
                         ends |-> InsertAt(chunk.ends, found.index, span.end),
                         tasks |-> InsertAt(chunk.tasks, found.index, tid)]]

\* Row::add, the loop over on_cpu from its i-th span on.
RECURSIVE add_on_cpu(_, _, _, _)
add_on_cpu(fore, on_cpu, i, tid) ==
    IF i > Len(on_cpu) THEN [ok |-> TRUE, chunk |-> fore]
    ELSE LET added == Chunk_add(fore, on_cpu[i], tid)
         IN  IF ~added.ok THEN added
             ELSE add_on_cpu(added.chunk, on_cpu, i + 1, tid)

\* Row::add
Row_add(row, task) ==
    IF task.on_cpu # None
    THEN LET back == Chunk_add(row.back, task.span, task.id)
         IN  IF ~back.ok \/ has_overlap(row.fore, task.span)
             THEN [ok |-> FALSE, row |-> row]
             ELSE LET fore == add_on_cpu(row.fore, task.on_cpu[1], 1, task.id)
                  IN  [ok |-> fore.ok,
                       row |-> [row EXCEPT !.back = back.chunk, !.fore = fore.chunk]]
    ELSE LET fore == Chunk_add(row.fore, task.span, task.id)
         IN  IF ~fore.ok \/ has_overlap(row.back, task.span)
             THEN [ok |-> FALSE, row |-> row]
             ELSE [ok |-> TRUE, row |-> [row EXCEPT !.fore = fore.chunk]]

Row_new == [fore |-> Chunk_new, back |-> Chunk_new, reserve |-> Chunk_new]

\* Thread::find_row taking the last row without overlap.
find_row_last_fit(thread, span) ==
    LET free == {i \in DOMAIN thread.rows :
                    /\ ~has_overlap(thread.rows[i].back, span)
                    /\ ~has_overlap(thread.rows[i].fore, span)
                    /\ ~has_overlap(thread.rows[i].reserve, span)}
    IN  IF free # {}
        THEN [thread |-> thread,
              row |-> (CHOOSE i \in free : \A j \in free : i >= j) - 1]
        ELSE [thread |-> [rows |-> Append(thread.rows, Row_new)],
              row |-> Len(thread.rows)]

\* Thread::find_row without the test of back.
find_row_ignoring_back(thread, span) ==
    LET free == {i \in DOMAIN thread.rows :
                    /\ ~has_overlap(thread.rows[i].fore, span)
                    /\ ~has_overlap(thread.rows[i].reserve, span)}
    IN  IF free # {}
        THEN [thread |-> thread,
              row |-> (CHOOSE i \in free : \A j \in free : i <= j) - 1]
        ELSE [thread |-> [rows |-> Append(thread.rows, Row_new)],
              row |-> Len(thread.rows)]

\* Thread::find_row: the thread after the call and the RowId returned.
find_row(thread, span) ==
    LET free == {i \in DOMAIN thread.rows :
                    /\ ~has_overlap(thread.rows[i].back, span)
                    /\ ~has_overlap(thread.rows[i].fore, span)
                    /\ ~has_overlap(thread.rows[i].reserve, span)}
    IN  IF free # {}
        THEN [thread |-> thread,
              row |-> (CHOOSE i \in free : \A j \in free : i <= j) - 1]
        ELSE [thread |-> [rows |-> Append(thread.rows, Row_new)],
              row |-> Len(thread.rows)]

\* The LayoutBuilder of Layout::new, on the children lists of the tasks.
LayoutBuilder_new(children) ==
    [children |-> children, task_to_thread |-> << >>, threads |-> << >>,
     assignments |-> << >>, ok |-> TRUE]

\* A panic of LayoutBuilder::add: an assert!, an unwrap or an index failed.
Abort(b) == [b EXCEPT !.ok = FALSE]

\* LayoutBuilder::add, from the choice of the row on: thread_id and the
\* threads (the new Thread pushed) are given.
place_task(b, task, thread_id, threads) ==
    LET thread == threads[thread_id + 1]
        parent_row ==
            IF task.parent = None THEN None
            ELSE b.assignments[task.parent[1] + 1].children
        \* let row = ...
        chosen ==
            IF task.parent = None THEN find_row(thread, task.span)
            ELSE LET row == thread.rows[parent_row[1] + 1]
                 IN  IF has_overlap(row.fore, task.span) \/ has_overlap(row.back, task.span)
                     THEN find_row(thread, task.span)
                     ELSE [thread |-> thread, row |-> parent_row[1]]
        \* thread.rows[row.0].add(task)
        added == Row_add(chosen.thread.rows[chosen.row + 1], task)
        thread1 == [chosen.thread EXCEPT !.rows[chosen.row + 1] = added.row]
        \* let children = ...
        has_children == Len(b.children[task.id + 1]) > 0
        child == find_row(thread1, task.span)
        reserved == Chunk_add(child.thread.rows[child.row + 1].reserve, task.span, task.id)
        thread2 == IF has_children
                   THEN [child.thread EXCEPT !.rows[child.row + 1].reserve = reserved.chunk]
                   ELSE thread1
    IN  IF task.parent # None /\ parent_row = None THEN Abort(b)
        ELSE IF task.parent # None /\ parent_row[1] + 1 \notin DOMAIN thread.rows
        THEN Abort(b)
        ELSE IF ~added.ok
        THEN Abort([b EXCEPT !.threads = [threads EXCEPT ![thread_id + 1] = thread1]])
        ELSE IF has_children /\ ~reserved.ok
        THEN Abort([b EXCEPT !.threads = [threads EXCEPT ![thread_id + 1] = thread1]])
        ELSE IF Len(b.assignments) # task.id THEN Abort(b)
        ELSE [b EXCEPT
                !.threads = [threads EXCEPT ![thread_id + 1] = thread2],
                !.assignments = Append(@,
                    [thread |-> thread_id, row |-> chosen.row,
                     children |-> IF has_children THEN Some(child.row) ELSE None])]

\* LayoutBuilder::add
LayoutBuilder_add(b, task) ==
    IF task.parent # None /\ task.parent[1] + 1 \notin DOMAIN b.task_to_thread
    THEN Abort(b)
    ELSE LET thread_id == IF task.parent # None
                          THEN b.task_to_thread[task.parent[1] + 1]
                          ELSE Len(b.threads)
             threads == IF task.parent # None THEN b.threads
                        ELSE Append(b.threads, [rows |-> << >>])
         IN  IF Len(b.task_to_thread) # task.id THEN Abort(b)
             ELSE place_task([b EXCEPT !.task_to_thread = Append(@, thread_id)],
                             task, thread_id, threads)

\* Layout::new, the first loop: the children lists of the first n tasks.
RECURSIVE children_of(_, _)
children_of(tasks, n) ==
    IF n = 0 THEN << >>
    ELSE LET children == Append(children_of(tasks, n - 1), << >>)
             task == tasks[n]
         IN  IF task.parent # None
             THEN [children EXCEPT ![task.parent[1] + 1] = Append(@, task.id)]
             ELSE children

\* Layout::new, the second loop over the first n tasks; a panic ends it.
RECURSIVE build(_, _)
build(tasks, n) ==
    IF n = 0 THEN LayoutBuilder_new(children_of(tasks, Len(tasks)))
    ELSE LET b == build(tasks, n - 1)
         IN  IF ~b.ok THEN b ELSE LayoutBuilder_add(b, tasks[n])

\* Layout::new: the Layout, or the builder at the panic.
Layout_new(db) ==
    LET b == build(db.tasks, Len(db.tasks))
    IN  [tag |-> IF b.ok THEN "Ok" ELSE "Panic", threads |-> b.threads]

(***************************************************************************)
(* f2/src/main.rs: loading a file and scheduling the render.  The bytes of *)
(* a file are modelled by the sequence of the items the stream             *)
(* deserializer yields from them: events, and items of type "Malformed"    *)
(* for text that is no event.                                              *)
(***************************************************************************)
\* read_into: the loop from item i on; `item?` returns at the first Err.
RECURSIVE read_into_from(_, _, _)
read_into_from(out, items, i) ==
    IF i > Len(items) THEN [ok |-> TRUE, out |-> out]
    ELSE LET item == from_str(items[i])
         IN  IF ~item.ok THEN [ok |-> FALSE, out |-> out]
             ELSE read_into_from(add_event(out, item.event), items, i + 1)

read_into(out, bytes) == read_into_from(out, bytes, 1)

\* The events read_into gives to add_event: the items from i on that come
\* before the first Err.
RECURSIVE read_events(_, _)
read_events(items, i) ==
    IF i > Len(items) \/ ~from_str(items[i]).ok THEN << >>
    ELSE << from_str(items[i]).event >> \o read_events(items, i + 1)

schedule_render_unguarded(scheduled, pending) ==
    [render_scheduled |-> TRUE, frames |-> pending + 1]

\* Context::schedule_render, on the pair of render_scheduled and frames.
schedule_render(scheduled, pending) ==
    IF ~scheduled
    THEN [render_scheduled |-> TRUE, frames |-> pending + 1]
    ELSE [render_scheduled |-> scheduled, frames |-> pending]

(***************************************************************************)
(* The specification of the event tree: a tree is built with some goal     *)
(* names and hide-wakeups-from names, add and filter are called on it.     *)
(***************************************************************************)
RECURSIVE SumLen(_, _)
SumLen(slab, ids) ==
    IF ids = {} THEN 0
    ELSE LET id == CHOOSE x \in ids : TRUE
         IN  Len(slab[id].events) + SumLen(slab, ids \ {id})

\* The number of events the tree holds.
TreeSize(t) == SumLen(t.slab, DOMAIN t.slab) + Cardinality(t.wakeups)

Panicked == call.op = "add" /\ ret.tag = "Panic"

\* What the caller of add gets: the result without the tree.
Returned(r) == [x \in DOMAIN r \ {"tree"} |-> r[x]]

\* The payloads the tests of event.rs build: buf_thread_start,
\* buf_sync_start, buf_sync_end, buf_wakeup.
TestBufs ==
    {b \in Bufs : b.type \in {"ThreadStart", "SyncStart", "SyncEnd", "Wakeup"}}

StartTypes == {"ThreadStart", "AsyncStart", "SyncStart"}

\* SpanIds are opaque: a trace is taken to number its spans in the order
\* of their Start events, so the id of a Start is that of a span already
\* started or the next one free.  (A parent_id, a Wakeup's spans and the id
\* of any other event are any SpanId.)
InOrder(t, B) ==
    {b \in B : b.type \in StartTypes => b.id <= Cardinality(DOMAIN t.slab)}

\* f2 before main has run.
F2Idle ==
    /\ spans = State_new
    /\ zoom = << 0, 0 >>
    /\ render_scheduled = FALSE
    /\ frames = 0
    /\ reads = 0
    /\ trace = << >>

Init ==
    /\ \E goals \in SUBSET Names, hide \in SUBSET {"Control"} :
            tree = new_hide_wakeups(goals, hide)
    /\ call = [op |-> "new"]
    /\ ret = [tag |-> "Ok"]
    /\ F2Idle

WithinBounds(t, n) ==
    /\ TreeSize(t) <= n
    /\ Cardinality(t.wakeups) <= MaxWakeups

\* A call of add that is accepted (returns Ok), on a payload as the tests
\* build them.
Add ==
    /\ ~Panicked
    /\ TreeSize(tree) < MaxAdds
    /\ \E buf \in InOrder(tree, TestBufs) :
        \E r \in {add(tree, buf)} :
            /\ r.tag = "Ok"
            /\ WithinBounds(r.tree, MaxAdds)
            /\ tree' = r.tree
            /\ call' = [op |-> "add", arg |-> buf]
            /\ ret' = Returned(r)
    /\ UNCHANGED f2Vars

\* A call of filter.
Filter ==
    /\ ~Panicked
    /\ \E goal_order \in Orders(tree.goal_spans), wakeup_order \in Orders(tree.wakeups) :
            ret' = filter(tree, goal_order, wakeup_order)
    /\ call' = [op |-> "filter"]
    /\ UNCHANGED tree
    /\ UNCHANGED f2Vars

Next == Add \/ Filter

Spec == Init /\ [][Next]_vars

\* Any call of add, accepted or not, on any payload.
AddAny ==
    /\ ~Panicked
    /\ \E buf \in InOrder(tree, Bufs) :
        \E r \in {add(tree, buf)} :
            /\ WithinBounds(r.tree, MaxAddsAll)
            /\ tree' = r.tree
            /\ call' = [op |-> "add", arg |-> buf]
            /\ ret' = Returned(r)
    /\ UNCHANGED f2Vars

NextAdd == AddAny

\* EventTree::new(goals): wakeups from "Control" are hidden.
new(goals) == new_hide_wakeups(goals, {"Control"})

InitAdd ==
    /\ \E goals \in {{}, {"Niko"}} : tree = new(goals)
    /\ call = [op |-> "new"]
    /\ ret = [tag |-> "Ok"]
    /\ F2Idle

SpecAdd == InitAdd /\ [][NextAdd]_vars

(***************************************************************************)
(* The vocabulary of the properties of filter.                             *)
(***************************************************************************)
Filtered == call.op = "filter"

Nodes == DOMAIN tree.slab

\* A goal span: a node whose name is a goal name, or any node when there is
\* no goal name.
GoalSpans ==
    {id \in Nodes : tree.slab[id].name \in tree.goal_names \/ tree.goal_names = {}}

\* The nodes on the way from id to its root, by the parent links.
RECURSIVE AncestorsOf(_)
AncestorsOf(id) ==
    LET p == tree.slab[id].parent
    IN  IF p = None \/ p[1] \notin Nodes THEN {} ELSE {p[1]} \cup AncestorsOf(p[1])

Range(seq) == {seq[i] : i \in DOMAIN seq}

\* The nodes below id, by the children lists.
RECURSIVE DescendantsOf(_)
DescendantsOf(id) ==
    LET cs == Range(tree.slab[id].children)
    IN  cs \cup UNION {DescendantsOf(c) : c \in cs}

\* The payloads of a node, in the order held.
PayloadsOf(id) == [i \in DOMAIN tree.slab[id].events |-> tree.slab[id].events[i].buf]

\* How many times x occurs in seq.
Count(seq, x) == Cardinality({i \in DOMAIN seq : seq[i] = x})

InOutput(buf) == \E i \in DOMAIN ret.result : ret.result[i] = buf

\* Every payload of the node is in the output.
NodeInOutput(id) == \A b \in Range(PayloadsOf(id)) : InOutput(b)

\* The positions of the output that hold payloads of node id (a payload of a
\* node names the node's id; a Wakeup payload names no node).
PositionsOf(id) ==
    {i \in DOMAIN ret.result : ret.result[i].type # "Wakeup" /\ ret.result[i].id = id}

WakeupPositions ==
    {i \in DOMAIN ret.result : ret.result[i].type = "Wakeup"}

\* C1: after filter, all the events of every descendant of every goal span
\* are in the output, whatever the order the goal spans were processed in.
C1_DescendantsIncluded ==
    Filtered => \A g \in GoalSpans : \A d \in DescendantsOf(g) : NodeInOutput(d)

\* C2: after filter, the events of every goal span and of each of its
\* ancestors are in the output.
C2_GoalAndAncestorsIncluded ==
    Filtered => \A g \in GoalSpans : \A n \in {g} \cup AncestorsOf(g) : NodeInOutput(n)

\* A filter has run on a chain of three nodes whose last one is the only goal.
C2_Witness ==
    /\ Filtered
    /\ \E g \in GoalSpans :
          /\ GoalSpans = {g}
          /\ Cardinality(AncestorsOf(g)) = 2
          /\ \A n \in {g} \cup AncestorsOf(g) : PositionsOf(n) # {}

\* The nodes that are a goal span, an ancestor of one or a descendant of one.
Related ==
    UNION {{g} \cup AncestorsOf(g) \cup DescendantsOf(g) : g \in GoalSpans}

\* C3: with a goal name given, a node that is neither a goal span nor an
\* ancestor nor a descendant of one has no event in the output.
C3_UnrelatedExcluded ==
    (Filtered /\ tree.goal_names # {}) =>
        \A n \in Nodes \ Related : PositionsOf(n) = {}

\* A filter has run on a tree where a goal span has a sibling that is no
\* goal: the parent and the goal are in the output, the sibling is not.
C3_Witness ==
    /\ Filtered
    /\ tree.goal_names # {}
    /\ \E g \in GoalSpans, n \in Nodes \ Related :
          /\ tree.slab[g].parent # None
          /\ tree.slab[n].parent = tree.slab[g].parent
          /\ PositionsOf(g) # {}
          /\ PositionsOf(tree.slab[g].parent[1]) # {}

\* C4: after filter, a payload of a node is in the output no more often
\* than the node holds it.
C4_NoDuplicates ==
    Filtered =>
        \A n \in Nodes : \A b \in Range(PayloadsOf(n)) :
            Count(ret.result, b) <= Count(PayloadsOf(n), b)

\* A filter has run where a node in the output is the parent of two goal
\* spans, or is below a goal span and above another.
C4_Witness ==
    /\ Filtered
    /\ \E n \in Nodes, g1, g2 \in GoalSpans :
          /\ g1 # g2
          /\ n \in AncestorsOf(g1)
          /\ n \in AncestorsOf(g2) \cup DescendantsOf(g2)
          /\ PositionsOf(n) # {}

\* A recorded wakeup may be output: both its spans were included and its
\* waking span's name is not hidden.
Eligible(w, seen) ==
    /\ w.waking_span \in seen
    /\ w.parked_span \in seen
    /\ w.waking_span \in Nodes
    /\ tree.slab[w.waking_span].name \notin tree.hide_wakeups_from_names

\* C5: after filter, a recorded wakeup's payload is in the output if and
\* only if its waking span and its parked span are both among the included
\* nodes and the waking span's name is not in the hide-wakeups-from set.
C5_WakeupIncludedIff ==
    Filtered =>
        \A w \in tree.wakeups : InOutput(w.event.buf) <=> Eligible(w, ret.seen_ids)

\* A filter has output the wakeup between two different included nodes.
C5_Witness ==
    /\ Filtered
    /\ \E w \in tree.wakeups :
          /\ w.waking_span # w.parked_span
          /\ InOutput(w.event.buf)

C7_RootFirstWakeupsLast ==
    Filtered =>
        /\ \A c \in Nodes :
              tree.slab[c].parent # None =>
                \A i \in PositionsOf(tree.slab[c].parent[1]), j \in PositionsOf(c) : i < j
        /\ \A i \in WakeupPositions, j \in DOMAIN ret.result \ WakeupPositions : j < i

\* The wakeups that may be output when every node is included.
EligibleWakeups == {w \in tree.wakeups : Eligible(w, Nodes)}

\* C8: with no goal name, filter outputs the events of every node: all of
\* them are in the output, whose length is the number of events the nodes
\* hold plus the number of eligible wakeups.
C8_NoGoalsEverything ==
    (Filtered /\ tree.goal_names = {}) =>
        /\ \A n \in Nodes : NodeInOutput(n)
        /\ Len(ret.result) = SumLen(tree.slab, Nodes) + Cardinality(EligibleWakeups)

\* A filter with no goal name has run on a tree of a root and a child of a
\* child.
C8_Witness ==
    /\ Filtered
    /\ tree.goal_names = {}
    /\ \E n \in Nodes : Cardinality(AncestorsOf(n)) = 2
    /\ Len(ret.result) = 3

(***************************************************************************)
(* The properties of add (specification SpecAdd).                          *)
(***************************************************************************)
\* C9: a call of add on a Start event (ThreadStart, AsyncStart, SyncStart)
\* whose id already has a node returns Err with the payload it was given
\* and leaves the tree as it was.
C9_DuplicateStartIsError ==
    [][(/\ call'.op = "add"
        /\ call'.arg.type \in StartTypes
        /\ call'.arg.id \in DOMAIN tree.slab)
            => (/\ ret'.tag = "Err"
                /\ ret'.buf = call'.arg
                /\ tree' = tree)]_vars

(***************************************************************************)
(* The specification of f2's main loop: main has set the listeners up and  *)
(* scheduled the first render; then files are chosen, their reads end, the *)
(* window is resized and animation frames come.                            *)
(***************************************************************************)
\* The items of the files loaded: thread events, and text that is no event.
FileItems ==
    {e \in F2Events : e.type \in {"ThreadStart", "ThreadEnd"}} \cup MalformedBufs

RECURSIVE SeqsUpTo(_, _)
SeqsUpTo(S, n) ==
    IF n = 0 THEN {<< >>}
    ELSE LET shorter == SeqsUpTo(S, n - 1)
         IN  shorter \cup {Append(q, x) : q \in {r \in shorter : Len(r) = n - 1}, x \in S}

Files == SeqsUpTo(FileItems, MaxItems)

\* main, to the call of event_loop.
InitLoad ==
    /\ tree = new_hide_wakeups({}, {})
    /\ call = [op |-> "main"]
    /\ ret = [tag |-> "Ok"]
    /\ spans = State_new
    /\ zoom = << 0, 0 >>
    /\ \E r \in {schedule_render(FALSE, 0)} :
            /\ render_scheduled = r.render_scheduled
            /\ frames = r.frames
    /\ reads = 0
    /\ trace = << >>

\* The ChangeEvent listener: set_file on the file chosen, whose read begins.
Change ==
    /\ reads < MaxReads
    /\ reads' = reads + 1
    /\ call' = [op |-> "change"]
    /\ ret' = [tag |-> "Ok"]
    /\ UNCHANGED << tree, spans, zoom, render_scheduled, frames, trace >>

\* The loadend callback of set_file, on a read that has ended and the bytes
\* it read.
LoadEnd ==
    /\ reads > 0
    /\ \E data \in Files :
        \E r \in {read_into(State_new, data)} :
        \E sr \in {schedule_render(render_scheduled, frames)} :
            /\ spans' = r.out
            /\ trace' = read_events(data, 1)
            /\ zoom' = << 0, r.out.end_time >>
            /\ render_scheduled' = sr.render_scheduled
            /\ frames' = sr.frames
            /\ call' = [op |-> "loadend", arg |-> data]
            /\ ret' = [tag |-> IF r.ok THEN "Ok" ELSE "Err", loaded |-> State_len(r.out)]
    /\ reads' = reads - 1
    /\ UNCHANGED tree

\* The ResizeEvent listener.
Resize ==
    /\ \E sr \in {schedule_render(render_scheduled, frames)} :
            /\ render_scheduled' = sr.render_scheduled
            /\ frames' = sr.frames
    /\ call' = [op |-> "resize"]
    /\ ret' = [tag |-> "Ok"]
    /\ UNCHANGED << tree, spans, zoom, reads, trace >>

\* The times the browser gives to the animation-frame callbacks.  The time
\* of a frame is later than that of the frame before: of the clock the
\* model keeps that the two differ.
FrameTimes == 0..MaxFrameTime

\* The animation-frame callback without ctx.inner.render_scheduled.set(false).
AnimationFrame_flag_kept ==
    /\ frames > 0
    /\ \E sr \in {schedule_render(render_scheduled, frames - 1)} :
            /\ render_scheduled' = sr.render_scheduled
            /\ frames' = sr.frames
    /\ \E time \in FrameTimes :
            /\ call.op = "render" => time # call.time
            /\ call' = [op |-> "render", arg |-> zoom, time |-> time]
    /\ ret' = [tag |-> "Ok", read |-> spans]
    /\ UNCHANGED << tree, spans, zoom, reads, trace >>

\* An animation-frame callback at the time given by the browser: the flag
\* is cleared, render borrows the spans (ret.read), draws those of the zoom
\* window and schedules the next render.
AnimationFrame ==
    /\ frames > 0
    /\ \E sr \in {schedule_render(FALSE, frames - 1)} :
            /\ render_scheduled' = sr.render_scheduled
            /\ frames' = sr.frames
    /\ \E time \in FrameTimes :
            /\ call.op = "render" => time # call.time
            /\ call' = [op |-> "render", arg |-> zoom, time |-> time]
    /\ ret' = [tag |-> "Ok", read |-> spans]
    /\ UNCHANGED << tree, spans, zoom, reads, trace >>

NextLoad == Change \/ LoadEnd \/ Resize \/ AnimationFrame

SpecLoad == InitLoad /\ [][NextLoad]_vars

\* The browser delivers the animation-frame callbacks that were requested.
SpecLoadFair == SpecLoad /\ WF_vars(AnimationFrame)

\* The items of a file that are events.
RECURSIVE WellFormed(_)
WellFormed(items) ==
    IF items = << >> THEN << >>
    ELSE IF from_str(Head(items)).ok
         THEN << Head(items) >> \o WellFormed(Tail(items))
         ELSE WellFormed(Tail(items))

\* The state that holds the events given, each added in turn.
RECURSIVE Ingest(_, _)
Ingest(s, events) ==
    IF events = << >> THEN s
    ELSE Ingest(add_event(s, Head(events)), Tail(events))

\* C10: when a file holds a malformed item the load is not aborted: the
\* error is reported and every event of the file, those after the malformed
\* item too, is in the span state once the file is loaded.
C10_LoadContinuesPastMalformed ==
    (call.op = "loadend" /\ WellFormed(call.arg) # call.arg) =>
        /\ ret.tag = "Err"
        /\ spans = Ingest(State_new, WellFormed(call.arg))

(***************************************************************************)
(* The specification of the span reconstructor: a spans::State is built,   *)
(* events are given to add_event and windows are selected.                 *)
(***************************************************************************)
SpanEventIds == 0..MaxSpanId

\* The events given to add_event: every kind of event, on the ids of
\* SpanEventIds and with one name.
SpanEvents ==
    {e \in F2Events :
        /\ e.type = "Wakeup" =>
                e.waking_span \in SpanEventIds /\ e.parked_span \in SpanEventIds
        /\ e.type # "Wakeup" => e.id \in SpanEventIds
        /\ e.type \in StartTypes => e.name = "Niko"
        /\ e.type \in {"AsyncStart", "SyncStart"} => e.parent_id \in SpanEventIds}

\* State::new
InitSpans ==
    /\ tree = new_hide_wakeups({}, {})
    /\ call = [op |-> "new"]
    /\ ret = [tag |-> "Ok"]
    /\ F2Idle

\* State::add_event
AddEvent ==
    /\ Len(trace) < MaxEvents
    /\ \E event \in SpanEvents :
            /\ spans' = add_event(spans, event)
            /\ trace' = Append(trace, event)
            /\ call' = [op |-> "add_event", arg |-> event]
    /\ ret' = [tag |-> "Ok"]
    /\ UNCHANGED << tree, zoom, render_scheduled, frames, reads >>

\* State::select on a window, the iterator collected.
Select ==
    /\ \E start \in Timestamps, end \in Timestamps :
        \E order \in Orders(DOMAIN spans.active_spans) :
            /\ call' = [op |-> "select", arg |-> << start, end >>]
            /\ ret' = [tag |-> "Ok", result |-> select(spans, order, start, end)]
    /\ UNCHANGED << tree, f2Vars >>

NextSpans == AddEvent \/ Select

SpecSpans == InitSpans /\ [][NextSpans]_vars

(***************************************************************************)
(* The vocabulary of the properties of the span reconstructor.             *)
(***************************************************************************)
ActiveIds(s) == DOMAIN s.active_spans

FinishedIds(s) == {s.finished_spans[i].id : i \in DOMAIN s.finished_spans}

EndTypes == {"AsyncEnd", "SyncEnd", "ThreadEnd"}

InProgressStyles == {"ThreadInProgress", "SyncInProgress", "AsyncInProgress"}

\* add_event has just been called on an event of one of the types given.
Added(types) == call.op = "add_event" /\ call.arg.type \in types

\* The kind of End that matches a Start.
EndOf(start) ==
    CASE start.type = "AsyncStart" -> "AsyncEnd"
      [] start.type = "SyncStart" -> "SyncEnd"
      [] start.type = "ThreadStart" -> "ThreadEnd"

\* The step is a call of add_event on an End whose id is active and whose
\* kind matches the Start that opened it.
MatchedEnd ==
    /\ call'.op = "add_event"
    /\ trace' = Append(trace, call'.arg)
    /\ call'.arg.type \in EndTypes
    /\ call'.arg.id \in ActiveIds(spans)
    /\ call'.arg.type = EndOf(spans.active_spans[call'.arg.id].event)

\* The state follows a matched End: the last two events given are a Start
\* and the End of its kind, on one id.
AfterMatchedEnd ==
    /\ Added(EndTypes)
    /\ Len(trace) >= 2
    /\ trace[Len(trace) - 1].type \in StartTypes
    /\ trace[Len(trace) - 1].id = call.arg.id
    /\ call.arg.type = EndOf(trace[Len(trace) - 1])

\* C11: no id is both in active_spans and in finished_spans.
C11_ActiveFinishedDisjoint == ActiveIds(spans) \cap FinishedIds(spans) = {}

\* C12: every Start event given to add_event increases the number of active
\* spans by exactly 1, whatever the state.
C12_StartOpensOne ==
    [][(call'.op = "add_event" /\ trace' = Append(trace, call'.arg)
            /\ call'.arg.type \in StartTypes)
        => Cardinality(ActiveIds(spans')) = Cardinality(ActiveIds(spans)) + 1]_vars

\* C13: an End on an active id, of the kind of its Start, removes the
\* ActiveSpan and appends exactly one finished Span with that id, the
\* Start's parent id, the Start's timestamp as start, the End's timestamp
\* as end and the Start's message; one span fewer is open and len() is
\* unchanged.
C13_MatchedEndFinishes ==
    [][MatchedEnd =>
        LET end == call'.arg
            start == spans.active_spans[end.id]
            finished == spans'.finished_spans
        IN  /\ spans'.active_spans = Remove(spans.active_spans, end.id)
            /\ Len(finished) = Len(spans.finished_spans) + 1
            /\ SubSeq(finished, 1, Len(finished) - 1) = spans.finished_spans
            /\ finished[Len(finished)].id = end.id
            /\ finished[Len(finished)].parent_id =
                    (IF start.event.type = "ThreadStart" THEN None
                     ELSE Some(start.event.parent_id))
            /\ finished[Len(finished)].start = start.event.ts
            /\ finished[Len(finished)].end = end.ts
            /\ finished[Len(finished)].message = start.message
            /\ Cardinality(ActiveIds(spans')) = Cardinality(ActiveIds(spans)) - 1
            /\ State_len(spans') = State_len(spans)]_vars

C13_Witness ==
    /\ AfterMatchedEnd
    /\ trace[Len(trace) - 1].type = "SyncStart"
    /\ Len(spans.finished_spans) = 1
    /\ spans.finished_spans[1].parent_id = Some(1)
    /\ spans.finished_spans[1].start = 0
    /\ spans.finished_spans[1].end = 1

\* C14: the span that a matched End appends has the style ThreadFinished
\* for a ThreadStart, SyncFinished for a SyncStart and, for an AsyncStart,
\* AsyncSuccess, AsyncCancel or AsyncError as the outcome of the AsyncEnd is
\* Success, Cancelled or Error; and no finished span has an InProgress
\* style.
C14_FinishedStyle ==
    [][/\ MatchedEnd =>
            spans'.finished_spans[Len(spans'.finished_spans)].style =
                CASE call'.arg.type = "ThreadEnd" -> "ThreadFinished"
                  [] call'.arg.type = "SyncEnd" -> "SyncFinished"
                  [] call'.arg.type = "AsyncEnd" /\ call'.arg.outcome = "Success" ->
                        "AsyncSuccess"
                  [] call'.arg.type = "AsyncEnd" /\ call'.arg.outcome = "Cancelled" ->
                        "AsyncCancel"
                  [] call'.arg.type = "AsyncEnd" /\ call'.arg.outcome = "Error" ->
                        "AsyncError"
       /\ \A i \in DOMAIN spans'.finished_spans :
            spans'.finished_spans[i].style \notin InProgressStyles]_vars

C14_Witness ==
    /\ AfterMatchedEnd
    /\ call.arg.type = "AsyncEnd"
    /\ call.arg.outcome = "Cancelled"
    /\ spans.finished_spans[Len(spans.finished_spans)].style = "AsyncCancel"

\* C15: an id that is active or finished stays active or finished in every
\* later state, and the finished spans are never removed or altered: after
\* a step the finished spans of before are still there, as they were.
C15_Lifecycle ==
    [][/\ (ActiveIds(spans) \cup FinishedIds(spans))
                \subseteq (ActiveIds(spans') \cup FinishedIds(spans'))
       /\ Len(spans'.finished_spans) >= Len(spans.finished_spans)
       /\ SubSeq(spans'.finished_spans, 1, Len(spans.finished_spans))
                = spans.finished_spans]_vars

\* The greatest timestamp of the events of a sequence, 0 if it has none.
RECURSIVE MaxTimestamp(_)
MaxTimestamp(events) ==
    IF events = << >> THEN 0
    ELSE LET rest == MaxTimestamp(Tail(events))
         IN  IF Head(events).ts > rest THEN Head(events).ts ELSE rest

\* C16: end_time is the greatest timestamp of the events given to add_event
\* so far, those it dropped included, and 0 if none was given; no step
\* makes it smaller.
C16_EndTimeIsMax ==
    /\ [](spans.end_time = MaxTimestamp(trace))
    /\ [][spans'.end_time >= spans.end_time]_vars

\* An End of an unknown id, then an OnCPU of an earlier timestamp.
C16_Witness ==
    /\ Len(trace) = 2
    /\ trace[1].type = "ThreadEnd" /\ trace[1].ts = 1
    /\ trace[2].type = "AsyncOnCPU" /\ trace[2].ts = 0
    /\ State_len(spans) = 0
    /\ spans.end_time = 1

\* C17: select(start, end) yields one in-progress span, whose end is the
\* end of the window, for each active span that starts before `end`, each
\* finished span with span.start < end and span.end > start, and nothing
\* else; the state is as it was before the call.
C17_SelectWindow ==
    call.op = "select" =>
        LET start == call.arg[1]
            end == call.arg[2]
            result == ret.result
            active == {id \in ActiveIds(spans) : spans.active_spans[id].event.ts < end}
            IsInProgress(sp) == sp.style \in InProgressStyles
            IsFinished(sp) == sp.style \notin InProgressStyles
            Overlaps(sp) == sp.start < end /\ sp.end > start
        IN  /\ \A id \in active :
                Cardinality({i \in DOMAIN result :
                    /\ IsInProgress(result[i])
                    /\ result[i].id = id
                    /\ result[i].start = spans.active_spans[id].event.ts
                    /\ result[i].end = end}) = 1
            /\ Cardinality({i \in DOMAIN result : IsInProgress(result[i])})
                    = Cardinality(active)
            /\ SelectSeq(result, IsFinished) = SelectSeq(spans.finished_spans, Overlaps)
            /\ spans = Ingest(State_new, trace)

\* A window that takes the active span and leaves the finished span out.
C17_Witness ==
    /\ call.op = "select"
    /\ call.arg = << 0, 1 >>
    /\ Len(spans.finished_spans) = 1
    /\ Cardinality(ActiveIds(spans)) = 1
    /\ Len(ret.result) = 1
    /\ ret.result[1].style = "AsyncInProgress"
    /\ ret.result[1].end = 1

(***************************************************************************)
(* The specification of the layout: lay_out is called on some spans.       *)
(***************************************************************************)
LayoutTimestamps == 0..MaxLayoutTs

\* The spans given to lay_out, which reads their id, parent_id, start and
\* end: finished spans with start <= end.
LayoutSpans ==
    {sp \in [id : SpanIds, parent_id : {None} \cup {Some(id) : id \in SpanIds},
             start : LayoutTimestamps, end : LayoutTimestamps,
             style : {"SyncFinished"}, message : {<< "Niko" >>},
             wakeups : {<< >>}] : sp.start <= sp.end}

\* The sets of at most n elements of S.
RECURSIVE SetsUpTo(_, _)
SetsUpTo(S, n) ==
    IF n = 0 THEN {{}}
    ELSE LET smaller == SetsUpTo(S, n - 1)
         IN  smaller \cup {T \cup {x} : T \in smaller, x \in S}

\* The spans of the iterator given to lay_out.
InitLayout ==
    /\ tree = new_hide_wakeups({}, {})
    /\ call \in [op : {"select"}, spans : SetsUpTo(LayoutSpans, MaxSpans)]
    /\ ret = [tag |-> "Ok"]
    /\ F2Idle

\* The orders in which sort_unstable_by_key(|s| s.span.start) may leave the
\* spans: by start, spans of equal start in any order.
SortedByStart(S) ==
    {o \in Orders(S) : \A i, j \in DOMAIN o : i < j => o[i].start <= o[j].start}

\* lay_out
LayOut ==
    /\ call.op = "select"
    /\ \E sorted \in SortedByStart(call.spans) :
            /\ call' = [op |-> "lay_out", arg |-> sorted]
            /\ ret' = lay_out(sorted)
    /\ UNCHANGED << tree, f2Vars >>

NextLayout == LayOut

SpecLayout == InitLayout /\ [][NextLayout]_vars

(***************************************************************************)
(* The vocabulary of the properties of lay_out: call.arg holds the spans   *)
(* in the order in which lay_out processes them, ret the Layout.           *)
(***************************************************************************)
LaidOut == call.op = "lay_out"

Positions == DOMAIN call.arg

\* The path given to the span at position k when it is processed, and the
\* scope it is allocated in: the path without its last row.
PathAt(k) == lay_out_loop(call.arg, k).allocations[call.arg[k].id]

ScopeAt(k) == SubSeq(PathAt(k), 1, Len(PathAt(k)) - 1)

RowAt(k) == PathAt(k)[Len(PathAt(k))]

\* The path recorded for the id of the span at position k when lay_out
\* ends.
FinalPath(k) == lay_out_loop(call.arg, Len(call.arg)).allocations[call.arg[k].id]

\* No two of the spans have the same id (a SpanId is unique in a trace).
DistinctIds == \A i, j \in Positions : i # j => call.arg[i].id # call.arg[j].id

\* The intervals [start, end) of two spans have a point in common.
Overlap(a, b) ==
    (IF a.start > b.start THEN a.start ELSE b.start)
        < (IF a.end < b.end THEN a.end ELSE b.end)

\* C18: no two spans that lay_out gives the same final row have overlapping
\* intervals [start, end).
C18_NoOverlapInRow ==
    LaidOut =>
        \A i, j \in Positions :
            (i < j /\ ret.spans[i].row = ret.spans[j].row)
                => ~Overlap(ret.spans[i].span, ret.spans[j].span)

\* The span at position j is the last one before position k that was given
\* its row in the scope of the span at position k.
LastOnRowBefore(j, k) ==
    /\ j < k
    /\ ScopeAt(j) = ScopeAt(k)
    /\ \A m \in Positions :
            (j < m /\ m < k /\ ScopeAt(m) = ScopeAt(k)) => RowAt(m) # RowAt(j)

\* The row given to the span at position k was never used in its scope.
FreshRow(k) ==
    \A j \in Positions : (j < k /\ ScopeAt(j) = ScopeAt(k)) => RowAt(j) # RowAt(k)

\* C19: when a row is allocated for a span, the occupied rows of its scope
\* whose recorded end is <= the start of the span have been released: none
\* is left among the occupied rows of the sweep, and the span is given a
\* fresh row only if every row used before in the scope is still occupied
\* by a span that ends after the start of the span.  (Stated of spans of
\* distinct ids.)
C19_RowReuse ==
    (LaidOut /\ DistinctIds) =>
        \A k \in Positions :
            /\ \A e \in lay_out_loop(call.arg, k).sweeps[ScopeAt(k)].ends :
                    e[1] <= call.arg[k].start => e = << call.arg[k].end, RowAt(k) >>
            /\ FreshRow(k) =>
                    \A j \in Positions :
                        LastOnRowBefore(j, k) => call.arg[j].end > call.arg[k].start

\* The first position at which a path is given.
FirstAt(p) == CHOOSE k \in Positions : PathAt(k) = p /\ \A m \in Positions : PathAt(m) = p => k <= m

\* C20 as stated: the rows used are exactly 0..total_rows-1, total_rows is
\* the number of distinct paths, and of two paths the one that is first
\* given earlier in the processing order has the smaller row.  (Stated of
\* spans of distinct ids.)
C20_RowsInOrderOfAppearance ==
    (LaidOut /\ DistinctIds) =>
        /\ {ret.spans[k].row : k \in Positions} = 0..(ret.total_rows - 1)
        /\ ret.total_rows = Cardinality({PathAt(k) : k \in Positions})
        /\ \A i, j \in Positions :
                FirstAt(PathAt(i)) < FirstAt(PathAt(j)) => ret.spans[i].row < ret.spans[j].row

\* C20 as amended: the rows used are exactly 0..total_rows-1, total_rows is
\* the number of distinct paths recorded (for each span id, the path given
\* last), and of two paths the one that is the smaller in the order of
\* paths (row by row, a prefix before its extensions) has the smaller row.
C20_RowsInOrderOfPaths ==
    LaidOut =>
        /\ {ret.spans[k].row : k \in Positions} = 0..(ret.total_rows - 1)
        /\ ret.total_rows = Cardinality({FinalPath(k) : k \in Positions})
        /\ \A i, j \in Positions :
                PathLess(FinalPath(i), FinalPath(j)) => ret.spans[i].row < ret.spans[j].row

\* Three spans of three paths, the child of the first processed last and
\* laid out above the second.
C20_Witness ==
    /\ LaidOut
    /\ ret.total_rows = 3
    /\ PathAt(1) = << 0 >> /\ PathAt(2) = << 1 >> /\ PathAt(3) = << 0, 0 >>
    /\ ret.spans[3].row = 1
    /\ ret.spans[2].row = 2

(***************************************************************************)
(* The span reconstructor on the events of one span id: the traces are     *)
(* longer than those of SpecSpans.                                         *)
(***************************************************************************)
SpanEventsOne ==
    {e \in SpanEvents :
        /\ e.type = "Wakeup" => e.waking_span = 0 /\ e.parked_span = 0
        /\ e.type # "Wakeup" => e.id = 0
        /\ e.type \in {"AsyncStart", "SyncStart"} => e.parent_id = 0}

\* State::add_event
AddEventOne ==
    /\ Len(trace) < MaxEventsOne
    /\ \E event \in SpanEventsOne :
            /\ spans' = add_event(spans, event)
            /\ trace' = Append(trace, event)
            /\ call' = [op |-> "add_event", arg |-> event]
    /\ ret' = [tag |-> "Ok"]
    /\ UNCHANGED << tree, zoom, render_scheduled, frames, reads >>

NextSpansOne == AddEventOne

SpecSpansOne == InitSpans /\ [][NextSpansOne]_vars

\* The step is a call of add_event on an event of one of the types given.
AddEventStep(types) ==
    /\ call'.op = "add_event"
    /\ trace' = Append(trace, call'.arg)
    /\ call'.arg.type \in types

\* C24: an End event on an active id whose kind is not that of the Start
\* that opened it is dropped: no finished span is produced and the active
\* and finished spans are as before.
C24_MismatchedEndDropped ==
    [][(/\ AddEventStep(EndTypes)
        /\ call'.arg.id \in ActiveIds(spans)
        /\ call'.arg.type # EndOf(spans.active_spans[call'.arg.id].event))
            => (/\ spans'.active_spans = spans.active_spans
                /\ spans'.finished_spans = spans.finished_spans)]_vars

\* C25: an End event on an id that is not active (never started, or already
\* finished) leaves active_spans and finished_spans as they were; end_time
\* alone may change, and only to the timestamp of the event.
C25_UnknownEndIgnored ==
    [][(AddEventStep(EndTypes) /\ call'.arg.id \notin ActiveIds(spans))
            => (/\ spans'.active_spans = spans.active_spans
                /\ spans'.finished_spans = spans.finished_spans
                /\ spans'.end_time \in {spans.end_time, call'.arg.ts})]_vars

\* An End of an id that has already finished, and an active span beside it.
C25_Witness ==
    /\ Len(trace) = 3
    /\ trace[1].type = "ThreadStart"
    /\ trace[2].type = "ThreadEnd" /\ trace[2].id = trace[1].id /\ trace[2].ts = 0
    /\ trace[3].type = "ThreadEnd" /\ trace[3].id = trace[1].id /\ trace[3].ts = 1
    /\ Len(spans.finished_spans) = 1
    /\ spans.end_time = 1

\* C26: a Wakeup whose waking span is active appends one edge, to the
\* parked id and with the timestamp of the event, to the wakeups of the
\* waking span and changes nothing else in active_spans and finished_spans;
\* a Wakeup whose waking span is not active leaves both as they were.
C26_WakeupOnWakingSpan ==
    [][AddEventStep({"Wakeup"}) =>
        LET w == call'.arg
        IN  /\ spans'.finished_spans = spans.finished_spans
            /\ ActiveIds(spans') = ActiveIds(spans)
            /\ \A id \in ActiveIds(spans) \ {w.waking_span} :
                    spans'.active_spans[id] = spans.active_spans[id]
            /\ w.waking_span \in ActiveIds(spans) =>
                    /\ spans'.active_spans[w.waking_span].wakeups =
                            Append(spans.active_spans[w.waking_span].wakeups,
                                   [target |-> w.parked_span, ts |-> w.ts])
                    /\ spans'.active_spans[w.waking_span].event =
                            spans.active_spans[w.waking_span].event
                    /\ spans'.active_spans[w.waking_span].message =
                            spans.active_spans[w.waking_span].message]_vars

\* Two active spans, and a Wakeup from one to the other.
C26_Witness ==
    /\ Added({"Wakeup"})
    /\ call.arg.waking_span # call.arg.parked_span
    /\ ActiveIds(spans) = {call.arg.waking_span, call.arg.parked_span}
    /\ Len(spans.active_spans[call.arg.waking_span].wakeups) = 1
    /\ spans.active_spans[call.arg.parked_span].wakeups = << >>

\* The position in the trace of the Start that opened the span of id that
\* is open at the end of the trace: the first Start of id after the last
\* End of id.
OpenedAt(events, id) ==
    LET IsEnd(i) == events[i].type \in EndTypes /\ events[i].id = id
        IsStart(i) == events[i].type \in StartTypes /\ events[i].id = id
        last_end == IF \E i \in DOMAIN events : IsEnd(i)
                    THEN CHOOSE i \in DOMAIN events :
                            IsEnd(i) /\ \A j \in DOMAIN events : IsEnd(j) => j <= i
                    ELSE 0
    IN  CHOOSE i \in DOMAIN events :
            /\ i > last_end /\ IsStart(i)
            /\ \A j \in DOMAIN events : (j > last_end /\ IsStart(j)) => i <= j

\* The edges of the Wakeup events of waking span id among events[from..].
RECURSIVE WakeupsFrom(_, _, _)
WakeupsFrom(events, id, from) ==
    IF from > Len(events) THEN << >>
    ELSE (IF events[from].type = "Wakeup" /\ events[from].waking_span = id
          THEN << [target |-> events[from].parked_span, ts |-> events[from].ts] >>
          ELSE << >>) \o WakeupsFrom(events, id, from + 1)

\* C27: the wakeups of the span that an End finishes are the Wakeup events
\* of its id as waking span that were given after the first Start of the id
\* and before the End, in the order they were given.
C27_WakeupsKept ==
    [][(/\ AddEventStep(EndTypes)
        /\ call'.arg.id \in ActiveIds(spans)
        /\ Len(spans'.finished_spans) = Len(spans.finished_spans) + 1)
            => spans'.finished_spans[Len(spans'.finished_spans)].wakeups
                    = WakeupsFrom(trace, call'.arg.id, OpenedAt(trace, call'.arg.id))]_vars

(***************************************************************************)
(* More properties of the event tree.                                      *)
(***************************************************************************)
NodeEventTypes == {"AsyncOnCPU", "AsyncOffCPU", "AsyncEnd", "SyncEnd", "ThreadEnd"}

\* The step is a call of add; on a payload of one of the types given.
AddCalled ==
    /\ call'.op = "add"
    /\ << call', ret', tree' >> # << call, ret, tree >>

AddStep(types) == AddCalled /\ call'.arg.type \in types

\* C28: add of an AsyncStart or SyncStart whose parent_id has no node
\* returns Ok and makes the node a root (no parent, id in roots); and no add
\* re-parents a node: the parent of a node stays what it was, a root stays
\* in roots, and a node that is already there is added to no children list.
C28_OrphanIsRootForGood ==
    [][AddCalled =>
        /\ (/\ call'.arg.type \in {"AsyncStart", "SyncStart"}
            /\ call'.arg.id \notin Nodes
            /\ call'.arg.parent_id \notin Nodes)
                => (/\ ret'.tag = "Ok"
                    /\ call'.arg.id \in DOMAIN tree'.slab
                    /\ tree'.slab[call'.arg.id].parent = None
                    /\ call'.arg.id \in tree'.roots)
        /\ \A n \in Nodes :
            /\ n \in DOMAIN tree'.slab
            /\ tree'.slab[n].parent = tree.slab[n].parent
            /\ n \in tree.roots => n \in tree'.roots
            /\ \A p \in DOMAIN tree'.slab :
                    n \in Range(tree'.slab[p].children)
                        => p \in Nodes /\ n \in Range(tree.slab[p].children)]_vars

\* A node added with the parent_id 1 when 1 had no node, and then the Start
\* of 1: the node is still a root without parent, and 1 has no child.
C28_Witness ==
    /\ call.op = "add"
    /\ call.arg.type \in StartTypes
    /\ call.arg.id = 1
    /\ Nodes = {0, 1}
    /\ tree.slab[0].events[1].buf.type = "SyncStart"
    /\ tree.slab[0].events[1].buf.parent_id = 1
    /\ tree.slab[0].parent = None
    /\ 0 \in tree.roots
    /\ tree.slab[1].children = << >>

\* C29: add of an AsyncOnCPU, AsyncOffCPU, AsyncEnd, SyncEnd or ThreadEnd
\* event whose id has no node panics: it returns neither Ok nor Err.
C29_NodelessEventPanics ==
    [][(AddStep(NodeEventTypes) /\ call'.arg.id \notin Nodes)
            => (ret'.tag = "Panic" /\ ret'.err = "nodeless event")]_vars

\* The End of a span that was never started, in a tree that has a node.
C29_Witness ==
    /\ Panicked
    /\ ret.err = "nodeless event"
    /\ call.arg.type = "SyncEnd"
    /\ Nodes # {}
    /\ call.arg.id \notin Nodes

\* C30: after filter, every payload of an included node is in the output,
\* as often as the node holds it, and no payload of an excluded node is;
\* the first payload of a node is its Start and no other is a Start, and an
\* OnCPU, OffCPU or End event added is put after the payloads the node
\* holds, of that node alone.
C30_NodeEventsFollowNode ==
    /\ [](Filtered =>
            \A n \in Nodes : \A b \in Range(PayloadsOf(n)) :
                Count(ret.result, b) =
                    (IF n \in ret.seen_ids THEN Count(PayloadsOf(n), b) ELSE 0))
    /\ [](\A n \in Nodes : \A i \in DOMAIN PayloadsOf(n) :
                /\ PayloadsOf(n)[i].id = n
                /\ (i = 1) <=> (PayloadsOf(n)[i].type \in StartTypes))
    /\ [][(AddStep(NodeEventTypes) /\ ret'.tag = "Ok") =>
            /\ tree'.slab[call'.arg.id].events =
                    Append(tree.slab[call'.arg.id].events,
                           EventResult(call'.arg, call'.arg.ts))
            /\ \A n \in Nodes \ {call'.arg.id} :
                    tree'.slab[n].events = tree.slab[n].events]_vars

\* A filter on a goal name has output the Start and the End of a node and
\* left another node out.
C30_Witness ==
    /\ Filtered
    /\ tree.goal_names # {}
    /\ \E n \in ret.seen_ids, x \in Nodes \ ret.seen_ids :
            /\ Len(PayloadsOf(n)) = 2
            /\ PayloadsOf(n)[2].type = "SyncEnd"
            /\ Cardinality(PositionsOf(n)) = 2
            /\ PositionsOf(x) = {}

(***************************************************************************)
(* More properties of f2's main loop (specification SpecLoad).             *)
(***************************************************************************)
\* C22: at most one animation-frame callback is pending, and
\* render_scheduled is true exactly when one is; a resize or the end of a
\* load that comes while one is pending requests no further callback, and a
\* render pass leaves exactly one pending.
C22_OneRenderPending ==
    /\ [](frames <= 1 /\ (render_scheduled <=> frames = 1))
    /\ [][/\ (render_scheduled /\ call'.op \in {"resize", "loadend"})
                => frames' = frames
          /\ (call'.op = "render" /\ ret' # ret) => frames' = 1]_vars

\* A resize has come while a render was pending.
C22_Witness ==
    /\ call.op = "resize"
    /\ render_scheduled
    /\ frames = 1

\* C23: the render pass that follows the load of a file reads the complete
\* new trace: the state that holds every event of the file, also when the
\* file has a malformed item.
C23_RenderReadsCompleteTrace ==
    [][(call.op = "loadend" /\ call'.op = "render")
            => ret'.read = Ingest(State_new, WellFormed(call.arg))]_vars

(***************************************************************************)
(* The specification of glviewer's layout: Layout::new is called on a      *)
(* Database.                                                               *)
(***************************************************************************)
GlTimestamps == 0..MaxGlTs

\* db::Span
GlSpans == {sp \in [begin : GlTimestamps, end : GlTimestamps] : sp.begin <= sp.end}

\* The on-CPU spans a task may have: none recorded, or at most MaxOnCpu
\* spans inside the span of the task.
OnCpuOf(span) ==
    {None} \cup
    {Some(q) : q \in SeqsUpTo({sp \in GlSpans : span.begin <= sp.begin /\ sp.end <= span.end},
                              MaxOnCpu)}

\* db::Task, the task of the id given: its parent, if any, is a task
\* before it.
GlTasks(id) ==
    {[id |-> id, parent |-> parent, span |-> span, on_cpu |-> on_cpu] :
        parent \in {None} \cup {Some(p) : p \in 0..(id - 1)},
        span \in GlSpans,
        on_cpu \in UNION {OnCpuOf(sp) : sp \in GlSpans}}

\* db::Database: the tasks in the order of their ids, 0, 1, ...
RECURSIVE Databases(_)
Databases(n) ==
    IF n = 0 THEN {<< >>}
    ELSE LET shorter == Databases(n - 1)
         IN  shorter \cup
             {Append(tasks, task) :
                tasks \in {q \in shorter : Len(q) = n - 1},
                task \in {t \in GlTasks(n - 1) : t.on_cpu \in OnCpuOf(t.span)}}

InitGl ==
    /\ tree = new_hide_wakeups({}, {})
    /\ call \in [op : {"Database"}, tasks : Databases(MaxTasks)]
    /\ ret = [tag |-> "Ok"]
    /\ F2Idle

\* Layout::new
LayoutNew ==
    /\ call.op = "Database"
    /\ call' = [op |-> "Layout::new", arg |-> call]
    /\ ret' = Layout_new(call)
    /\ UNCHANGED << tree, f2Vars >>

NextGl == LayoutNew

SpecGl == InitGl /\ [][NextGl]_vars

\* Layout::new has been called.
LayoutBuilt == call.op = "Layout::new"

\* The rows of the threads of the layout built.
GlRows == {row \in UNION {Range(ret.threads[t].rows) : t \in DOMAIN ret.threads} : TRUE}

\* The intervals a chunk stores, each with its place and its task.
Stored(chunk, name) ==
    {[chunk |-> name, at |-> i, begin |-> chunk.begins[i], end |-> chunk.ends[i],
      task |-> chunk.tasks[i]] : i \in DOMAIN chunk.begins}

\* Two intervals [begin, end] have a point in common.
Overlapping(x, y) == x.begin <= y.end /\ y.begin <= x.end

\* C21: within every Row of the layout, the intervals of fore do not overlap
\* one another, the intervals of back do not overlap one another, and no
\* interval of one task in fore or back overlaps an interval of another task
\* in fore or back of the Row.
C21_RowIntervalsDisjoint ==
    LayoutBuilt =>
        \A row \in GlRows :
            LET fore == Stored(row.fore, "fore")
                back == Stored(row.back, "back")
            IN  /\ \A x, y \in fore : x.at # y.at => ~Overlapping(x, y)
                /\ \A x, y \in back : x.at # y.at => ~Overlapping(x, y)
                /\ \A x, y \in fore \cup back :
                        x.task # y.task => ~Overlapping(x, y)

\* A layout is built with a row that holds two tasks in fore and the span of
\* a task with on-CPU spans in back.
C21_Witness ==
    /\ LayoutBuilt
    /\ ret.tag = "Ok"
    /\ \E row \in GlRows :
        /\ Len(row.fore.begins) >= 2
        /\ Len(row.back.begins) >= 1
        /\ \E i, j \in DOMAIN row.fore.tasks : row.fore.tasks[i] # row.fore.tasks[j]

\* The node reached from id by n parent links, or by as many as there are.
RECURSIVE Up(_, _)
Up(id, n) ==
    IF n = 0 \/ tree.slab[id].parent = None \/ tree.slab[id].parent[1] \notin Nodes
    THEN id
    ELSE Up(tree.slab[id].parent[1], n - 1)

\* C31: after any sequence of successful add calls, an id is in roots iff
\* its node has no parent (every ThreadStart is a root); every node with a
\* parent p has p in the tree and is exactly once in p's children; every id
\* in a children list has a node whose parent is the node of the list; and
\* the parent links from any node lead to a root.
C31_Forest ==
    /\ \A id \in tree.roots : id \in Nodes
    /\ \A id \in Nodes :
        LET node == tree.slab[id]
        IN  /\ id \in tree.roots <=> node.parent = None
            /\ node.events[1].buf.type = "ThreadStart" => id \in tree.roots
            /\ node.parent # None =>
                /\ node.parent[1] \in Nodes
                /\ Count(tree.slab[node.parent[1]].children, id) = 1
            /\ \A c \in Range(node.children) :
                c \in Nodes /\ tree.slab[c].parent = Some(id)
            /\ Up(id, Cardinality(Nodes)) \in tree.roots

\* Successful adds have built a chain of three nodes under a ThreadStart.
C31_Witness ==
    /\ call.op = "add"
    /\ ret.tag = "Ok"
    /\ \E id \in Nodes :
        /\ tree.slab[id].parent # None
        /\ tree.slab[tree.slab[id].parent[1]].parent # None
        /\ tree.slab[Up(id, 2)].events[1].buf.type = "ThreadStart"

\* The sweep of the scope of the span at position k, before the span is
\* processed and after.
SweepBefore(k) ==
    LET st == lay_out_loop(call.arg, k - 1)
    IN  IF ScopeAt(k) \in DOMAIN st.sweeps THEN st.sweeps[ScopeAt(k)] ELSE Sweep_new

SweepAfter(k) == lay_out_loop(call.arg, k).sweeps[ScopeAt(k)]

\* The rows a sweep holds as occupied.
Occupied(sweep) == {e[2] : e \in sweep.ends}

\* The free rows of the sweep once the rows that ended before the start of
\* the span at position k are released.
FreeAfterRelease(k) ==
    SweepBefore(k).free
        \cup {e[2] : e \in {x \in SweepBefore(k).ends : x[1] < call.arg[k].start}}

\* The free and the occupied rows are disjoint, each occupied row has one
\* end, and together they are 0..next_free-1.
RowsPartitioned(sweep) ==
    /\ sweep.free \cap Occupied(sweep) = {}
    /\ Cardinality(sweep.ends) = Cardinality(Occupied(sweep))
    /\ sweep.free \cup Occupied(sweep) = 0..(sweep.next_free - 1)

\* C32: Sweep::alloc, after releasing, takes the smallest free row if there
\* is one, and otherwise takes next_free and increments it; before and
\* after every alloc the free and the occupied rows of every sweep are
\* disjoint and together are exactly 0..next_free-1.
C32_AllocStep ==
    LaidOut =>
        \A k \in Positions :
            /\ IF FreeAfterRelease(k) # {}
               THEN /\ RowAt(k) \in FreeAfterRelease(k)
                    /\ \A r \in FreeAfterRelease(k) : RowAt(k) <= r
                    /\ SweepAfter(k).next_free = SweepBefore(k).next_free
                    /\ SweepAfter(k).free = FreeAfterRelease(k) \ {RowAt(k)}
               ELSE /\ RowAt(k) = SweepBefore(k).next_free
                    /\ SweepAfter(k).next_free = SweepBefore(k).next_free + 1
                    /\ SweepAfter(k).free = {}
            /\ << call.arg[k].end, RowAt(k) >> \in SweepAfter(k).ends
            /\ RowsPartitioned(SweepBefore(k))
            /\ RowsPartitioned(release(SweepBefore(k), call.arg[k]))
            /\ \A scope \in DOMAIN lay_out_loop(call.arg, k).sweeps :
                    RowsPartitioned(lay_out_loop(call.arg, k).sweeps[scope])

\* The third of three spans of distinct ids is allocated when two rows of
\* its scope are free, and is given the smaller.
C32_Witness ==
    /\ LaidOut
    /\ DistinctIds
    /\ Len(call.arg) = 3
    /\ FreeAfterRelease(3) = {0, 1}
    /\ RowAt(3) = 0
    /\ SweepAfter(3).free = {1}

\* The ids of the spans processed before position k: those with a recorded
\* path when the span at position k is processed.
IdsBefore(k) == {call.arg[j].id : j \in 1..(k - 1)}

\* The span at position k names a parent that has no recorded path when the
\* span is processed.
UnknownParent(k) ==
    /\ call.arg[k].parent_id # None
    /\ call.arg[k].parent_id[1] \notin IdsBefore(k)

\* C33: a span whose parent has no recorded path when the span is processed
\* is laid out as a root: it is allocated from the sweep of the empty path
\* and given a path of length 1, and lay_out returns a Layout of all the
\* spans.
C33_UnknownParentIsRoot ==
    LaidOut =>
        /\ Len(ret.spans) = Len(call.arg)
        /\ \A k \in Positions :
            /\ ret.spans[k].span = call.arg[k]
            /\ ret.spans[k].row \in 0..(ret.total_rows - 1)
            /\ UnknownParent(k) =>
                /\ Len(PathAt(k)) = 1
                /\ ScopeAt(k) = << >>
                /\ << call.arg[k].end, RowAt(k) >>
                        \in lay_out_loop(call.arg, k).sweeps[<< >>].ends
                /\ RowAt(k) \notin
                        {e[2] : e \in {x \in SweepBefore(k).ends :
                                            x[1] >= call.arg[k].start}}

\* A span is processed before its parent, which starts at the same time, and
\* another names a parent that is not among the spans; both are laid out as
\* roots.
C33_Witness ==
    /\ LaidOut
    /\ DistinctIds
    /\ \E k, j \in Positions :
        /\ k < j
        /\ call.arg[k].parent_id = Some(call.arg[j].id)
        /\ call.arg[k].start = call.arg[j].start
        /\ Len(PathAt(k)) = 1
    /\ \E k \in Positions :
        /\ call.arg[k].parent_id # None
        /\ \A j \in Positions : call.arg[k].parent_id # Some(call.arg[j].id)
        /\ Len(PathAt(k)) = 1

(***************************************************************************)
(* The specification of a Chunk: intervals are added to a new Chunk and    *)
(* has_overlap is asked of it.  call.self is the Chunk as the last call    *)
(* left it.                                                                *)
(***************************************************************************)
ChunkSpans ==
    {sp \in [begin : 0..MaxChunkTs, end : 0..MaxChunkTs] : sp.begin <= sp.end}

InitChunk ==
    /\ tree = new_hide_wakeups({}, {})
    /\ call = [op |-> "Chunk::new", self |-> Chunk_new]
    /\ ret = [tag |-> "Ok"]
    /\ F2Idle

\* Chunk::add
ChunkAdd ==
    /\ ret.tag # "Panic"
    /\ Len(call.self.begins) < MaxChunkLen
    /\ \E span \in ChunkSpans, tid \in 0..(MaxTasks - 1) :
        \E r \in {Chunk_add(call.self, span, tid)} :
            /\ call' = [op |-> "Chunk::add", self |-> r.chunk, span |-> span, task |-> tid]
            /\ ret' = [tag |-> IF r.ok THEN "Ok" ELSE "Panic"]
    /\ UNCHANGED << tree, f2Vars >>

\* Chunk::has_overlap
HasOverlap ==
    /\ ret.tag # "Panic"
    /\ \E span \in ChunkSpans :
            /\ call' = [op |-> "Chunk::has_overlap", self |-> call.self, span |-> span]
            /\ ret' = [tag |-> "Ok", overlap |-> has_overlap(call.self, span)]
    /\ UNCHANGED << tree, f2Vars >>

NextChunk == ChunkAdd \/ HasOverlap

SpecChunk == InitChunk /\ [][NextChunk]_vars

\* The intervals of the chunk are sorted and pairwise disjoint.
SortedDisjoint(chunk) ==
    /\ \A i \in DOMAIN chunk.begins : chunk.begins[i] <= chunk.ends[i]
    /\ \A i, j \in DOMAIN chunk.begins : i < j => chunk.ends[i] < chunk.begins[j]

\* C34: for a chunk of sorted, pairwise disjoint intervals, has_overlap(q)
\* is true iff some stored interval [b, e] has b <= q.end and e >= q.begin;
\* it is false on an empty chunk and when every stored end is < q.begin.
C34_HasOverlap ==
    (call.op = "Chunk::has_overlap" /\ SortedDisjoint(call.self)) =>
        LET chunk == call.self
            q == call.span
        IN  /\ ret.overlap <=>
                    \E i \in DOMAIN chunk.begins :
                        chunk.begins[i] <= q.end /\ chunk.ends[i] >= q.begin
            /\ chunk.begins = << >> => ~ret.overlap
            /\ (\A i \in DOMAIN chunk.ends : chunk.ends[i] < q.begin) => ~ret.overlap

\* has_overlap is true of a query that meets only the middle one of three
\* intervals, and begins at no stored end.
C34_Witness ==
    /\ call.op = "Chunk::has_overlap"
    /\ SortedDisjoint(call.self)
    /\ Len(call.self.begins) = 3
    /\ ret.overlap
    /\ call.span.begin \notin Range(call.self.ends)
    /\ call.span.begin > call.self.ends[1]
    /\ call.span.end < call.self.begins[3]

(***************************************************************************)
(* The specification of glviewer's layout on well-formed Databases: the    *)
(* tasks, on the timestamps 0..MaxSeparatedTs, may have several on-CPU     *)
(* spans, mutually separated.                                              *)
(***************************************************************************)
\* The spans of the sequence lie inside the span given and no two of them
\* have a point in common.
Separated(on_cpu, span) ==
    /\ \A i \in DOMAIN on_cpu :
            span.begin <= on_cpu[i].begin /\ on_cpu[i].end <= span.end
    /\ \A i, j \in DOMAIN on_cpu :
            i # j => (on_cpu[i].end < on_cpu[j].begin \/ on_cpu[j].end < on_cpu[i].begin)

\* The on-CPU spans a task of a well-formed Database may have.
SeparatedOnCpuOf(span) ==
    {None} \cup {Some(q) : q \in {o \in SeqsUpTo(GlSpans, MaxSeparated) : Separated(o, span)}}

\* The well-formed Databases of at most n tasks.
RECURSIVE WellFormedDatabases(_)
WellFormedDatabases(n) ==
    IF n = 0 THEN {<< >>}
    ELSE LET shorter == WellFormedDatabases(n - 1)
         IN  shorter \cup
             {Append(tasks, [id |-> n - 1, parent |-> parent, span |-> shape[1],
                             on_cpu |-> shape[2]]) :
                tasks \in {q \in shorter : Len(q) = n - 1},
                parent \in {None} \cup {Some(p) : p \in 0..(n - 2)},
                shape \in UNION {{<< sp, o >> : o \in SeparatedOnCpuOf(sp)} :
                                    sp \in {q \in GlSpans : q.end <= MaxSeparatedTs}}}

InitGlWellFormed ==
    /\ tree = new_hide_wakeups({}, {})
    /\ call \in [op : {"Database"}, tasks : WellFormedDatabases(MaxTasks)]
    /\ ret = [tag |-> "Ok"]
    /\ F2Idle

SpecGlWellFormed == InitGlWellFormed /\ [][NextGl]_vars

\* The Database given to Layout::new.
GivenTasks == call.arg.tasks

\* The Database is well formed: the tasks are in the order of their ids
\* 0..n-1, a parent has a smaller id than its child, begin <= end, and the
\* on-CPU spans lie inside the span of the task and are mutually separated.
WellFormedDb(tasks) ==
    \A i \in DOMAIN tasks :
        /\ tasks[i].id = i - 1
        /\ tasks[i].parent # None => tasks[i].parent[1] \in 0..(i - 2)
        /\ tasks[i].span.begin <= tasks[i].span.end
        /\ tasks[i].on_cpu # None => Separated(tasks[i].on_cpu[1], tasks[i].span)

\* C35: on a well-formed Database, Layout::new completes: no assert! fails,
\* nothing panics, the unwrap of the parent's reserved child row succeeds
\* and no index is out of range, however the spans of the tasks overlap.
C35_NoPanicOnWellFormed ==
    (LayoutBuilt /\ WellFormedDb(GivenTasks)) => ret.tag = "Ok"

\* A layout is built of three tasks whose spans all have a point in common:
\* a parent with two on-CPU spans and two children, one of them with two
\* on-CPU spans.
C35_Witness ==
    /\ LayoutBuilt
    /\ WellFormedDb(GivenTasks)
    /\ ret.tag = "Ok"
    /\ Len(GivenTasks) = 3
    /\ \A i, j \in DOMAIN GivenTasks :
            GivenTasks[i].span.begin <= GivenTasks[j].span.end
    /\ GivenTasks[2].parent = Some(0) /\ GivenTasks[3].parent = Some(0)
    /\ GivenTasks[1].on_cpu # None /\ Len(GivenTasks[1].on_cpu[1]) = 2
    /\ GivenTasks[3].on_cpu # None /\ Len(GivenTasks[3].on_cpu[1]) = 2

(***************************************************************************)
(* The specification of glviewer's layout on deeper Databases, of up to    *)
(* MaxDeepTasks tasks on the timestamps 0..MaxDeepTs; a task has no on-CPU *)
(* spans recorded, or an empty list of them.                               *)
(***************************************************************************)
DeepTasks(id) ==
    {[id |-> id, parent |-> parent, span |-> span, on_cpu |-> on_cpu] :
        parent \in {None} \cup {Some(p) : p \in 0..(id - 1)},
        span \in {sp \in GlSpans : sp.end <= MaxDeepTs},
        on_cpu \in {None, Some(<< >>)}}

RECURSIVE DeepDatabases(_)
DeepDatabases(n) ==
    IF n = 0 THEN {<< >>}
    ELSE LET shorter == DeepDatabases(n - 1)
         IN  shorter \cup
             {Append(tasks, task) :
                tasks \in {q \in shorter : Len(q) = n - 1}, task \in DeepTasks(n - 1)}

InitGlDeep ==
    /\ tree = new_hide_wakeups({}, {})
    /\ call \in [op : {"Database"}, tasks : DeepDatabases(MaxDeepTasks)]
    /\ ret = [tag |-> "Ok"]
    /\ F2Idle

SpecGlDeep == InitGlDeep /\ [][NextGl]_vars

\* Some interval stored in the chunk has a point in common with the span.
Meets(chunk, span) ==
    \E x \in Stored(chunk, "") : x.begin <= span.end /\ x.end >= span.begin

\* Some interval stored in the chunk for another task than the one given
\* has a point in common with the span.
MeetsOthers(chunk, span, but) ==
    \E x \in Stored(chunk, "") :
        x.task # but /\ x.begin <= span.end /\ x.end >= span.begin

\* The RowId of the lowest row of the rows given with no overlap with the
\* span in fore, back or reserve, or that of a row appended to them; the
\* reservations of the task given are left out.
FirstFitBut(rows, span, but) ==
    LET free == {i \in DOMAIN rows :
                    /\ ~Meets(rows[i].fore, span)
                    /\ ~Meets(rows[i].back, span)
                    /\ ~MeetsOthers(rows[i].reserve, span, but)}
    IN  IF free = {} THEN Len(rows)
        ELSE (CHOOSE i \in free : \A j \in free : i <= j) - 1

FirstFit(rows, span) ==
    LET free == {i \in DOMAIN rows :
                    /\ ~Meets(rows[i].fore, span)
                    /\ ~Meets(rows[i].back, span)
                    /\ ~Meets(rows[i].reserve, span)}
    IN  IF free = {} THEN Len(rows)
        ELSE (CHOOSE i \in free : \A j \in free : i <= j) - 1

\* The builder before the k-th task is added and after.
BuilderBefore(k) == build(GivenTasks, k - 1)
BuilderAfter(k) == build(GivenTasks, k)

\* The rows of the thread of the k-th task before it is added and after.
RowsBefore(k) ==
    IF GivenTasks[k].parent = None THEN << >>
    ELSE BuilderBefore(k).threads[BuilderAfter(k).assignments[k].thread + 1].rows

RowsAfter(k) == BuilderAfter(k).threads[BuilderAfter(k).assignments[k].thread + 1].rows

HasChildren(k) == \E c \in DOMAIN GivenTasks : GivenTasks[c].parent = Some(k - 1)

\* C36: a task with a parent is placed in the parent's reserved child row
\* unless its span overlaps an interval of that row's fore or back; then,
\* as every parentless task, it is placed in the lowest row of its thread
\* with no overlap in fore, back or reserve, or in a row appended if there
\* is none.  A task that has children then reserves its span in the reserve
\* of a row found by the same scan, recorded as its children row.
C36_RowSelection ==
    LayoutBuilt =>
        \A k \in DOMAIN GivenTasks :
            BuilderAfter(k).ok =>
                LET task == GivenTasks[k]
                    given == BuilderAfter(k).assignments[k]
                    reserved == BuilderBefore(k).assignments[task.parent[1] + 1].children[1]
                    in_reserved ==
                        /\ task.parent # None
                        /\ ~Meets(RowsBefore(k)[reserved + 1].fore, task.span)
                        /\ ~Meets(RowsBefore(k)[reserved + 1].back, task.span)
                    child_row == FirstFitBut(RowsAfter(k), task.span, task.id)
                IN  /\ given.thread = IF task.parent = None
                                      THEN Len(BuilderBefore(k).threads)
                                      ELSE BuilderBefore(k).assignments[task.parent[1] + 1].thread
                    /\ given.row = IF in_reserved THEN reserved
                                   ELSE FirstFit(RowsBefore(k), task.span)
                    /\ task.id \in Range(RowsAfter(k)[given.row + 1].fore.tasks)
                                        \cup Range(RowsAfter(k)[given.row + 1].back.tasks)
                    /\ IF HasChildren(k)
                       THEN /\ given.children = Some(child_row)
                            /\ \E x \in Stored(RowsAfter(k)[child_row + 1].reserve, "") :
                                /\ x.task = task.id
                                /\ x.begin = task.span.begin
                                /\ x.end = task.span.end
                       ELSE /\ given.children = None
                            /\ \A row \in Range(RowsAfter(k)) :
                                    task.id \notin Range(row.reserve.tasks)

\* The row reserved by the parent of the k-th task.
ReservedFor(k) ==
    BuilderBefore(k).assignments[GivenTasks[k].parent[1] + 1].children[1]

\* The rows in which the k-th task could reserve its span.
FreeForChildren(k) ==
    {i \in DOMAIN RowsAfter(k) :
        /\ ~Meets(RowsAfter(k)[i].fore, GivenTasks[k].span)
        /\ ~Meets(RowsAfter(k)[i].back, GivenTasks[k].span)
        /\ ~MeetsOthers(RowsAfter(k)[i].reserve, GivenTasks[k].span, GivenTasks[k].id)}

\* A layout of four tasks is built: one is placed in the row its parent
\* reserved, one finds an interval in the way there and is placed in a row
\* appended, and one reserves its span in the lowest of two rows without
\* overlap.
C36_Witness ==
    /\ LayoutBuilt
    /\ ret.tag = "Ok"
    /\ Len(GivenTasks) = 4
    /\ \E k \in 2..4 :
        /\ GivenTasks[k].parent # None
        /\ BuilderAfter(k).assignments[k].row = ReservedFor(k)
    /\ \E k \in 2..4 :
        /\ GivenTasks[k].parent # None
        /\ BuilderAfter(k).assignments[k].row # ReservedFor(k)
        /\ BuilderAfter(k).assignments[k].row = Len(RowsBefore(k))
    /\ \E k \in 1..4 :
        /\ HasChildren(k)
        /\ Cardinality(FreeForChildren(k)) >= 2
        /\ \A i \in FreeForChildren(k) : BuilderAfter(k).assignments[k].children[1] < i

\* The span at position j is the parent of the span at position k and was
\* processed before it.
ParentBefore(j, k) ==
    j < k /\ call.arg[k].parent_id = Some(call.arg[j].id)

\* The span at position k descends from the span at position j by at most
\* n such links.
RECURSIVE DescendsFrom(_, _, _)
DescendsFrom(k, j, n) ==
    /\ n > 0
    /\ \/ ParentBefore(j, k)
       \/ \E m \in Positions : ParentBefore(m, k) /\ DescendsFrom(m, j, n - 1)

\* The path p is q or an extension of q.
Extends(p, q) == Len(p) >= Len(q) /\ SubSeq(p, 1, Len(q)) = q

\* C37: a span whose parent is in the layout and was processed before it
\* has a final row strictly greater than its parent's, and the descendants
\* of a span have rows between the row of the span and the row of the next
\* path that is not an extension of the path of the span.
C37_ChildrenBelowParent ==
    LaidOut =>
        \A j, k \in Positions :
            /\ ParentBefore(j, k) => ret.spans[k].row > ret.spans[j].row
            /\ DescendsFrom(k, j, Len(call.arg)) =>
                /\ ret.spans[k].row > ret.spans[j].row
                /\ \A m \in Positions :
                        (/\ ret.spans[m].row > ret.spans[j].row
                         /\ ~Extends(FinalPath(m), FinalPath(j)))
                            => ret.spans[k].row < ret.spans[m].row

\* The two sequences hold the same payloads, each as many times.
SameMultiset(a, b) ==
    \A x \in Range(a) \cup Range(b) : Count(a, x) = Count(b, x)

\* C38: the multiset of payloads filter returns does not depend on the
\* order in which the goal spans are iterated: whatever order this call of
\* filter took, every other order yields the same payloads.
C38_FilterOrderIndependent ==
    Filtered =>
        \A goal_order \in Orders(tree.goal_spans), wakeup_order \in Orders(tree.wakeups) :
            SameMultiset(filter(tree, goal_order, wakeup_order).result, ret.result)

(***************************************************************************)
(* The specification of the event tree on payloads in several texts: one   *)
(* Wakeup event can be written as JSON in more than one way (the order of  *)
(* the fields, the white space); `form` tells the texts of an event apart. *)
(* serde_json::from_str yields the same event for each.                    *)
(***************************************************************************)
WakeupTextBufs ==
    [type : {"Wakeup"}, waking_span : SpanIds, parked_span : SpanIds,
     ts : Timestamps, form : 0..MaxForms]

TextBufs == ThreadStartBufs \cup WakeupTextBufs

\* impl PartialEq for EventResult, and the derived PartialEq of Wakeup: the
\* timestamps and the spans are compared, the buf is not.
WakeupEq(a, b) ==
    /\ a.event.ts = b.event.ts
    /\ a.waking_span = b.waking_span
    /\ a.parked_span = b.parked_span

\* HashSet<Wakeup>::insert.  The derived Hash of EventResult hashes buf and
\* ts, so a wakeup equal to a recorded one but of another text has another
\* hash: it is found equal only if the hashes happen to meet in the table,
\* and is inserted otherwise.  Both are outcomes.
HashSetInsert(set, wakeup) ==
    IF wakeup \in set THEN {set}
    ELSE IF \E other \in set : WakeupEq(other, wakeup)
    THEN {set \cup {wakeup}, set}
    ELSE {set \cup {wakeup}}

\* EventTree::add on a payload of TextBufs: the results it may give.
add_text(t, buf) ==
    IF buf.type # "Wakeup" THEN {add(t, buf)}
    ELSE {Ok([t EXCEPT !.wakeups = set]) :
            set \in HashSetInsert(t.wakeups,
                        [event |-> EventResult(buf, buf.ts),
                         waking_span |-> buf.waking_span,
                         parked_span |-> buf.parked_span])}

InitTexts ==
    /\ tree = new_hide_wakeups({}, {})
    /\ call = [op |-> "new"]
    /\ ret = [tag |-> "Ok"]
    /\ F2Idle

\* A call of add that is accepted, on a payload of TextBufs.
AddText ==
    /\ TreeSize(tree) < MaxTextAdds
    /\ \E buf \in InOrder(tree, TextBufs) :
        \E r \in add_text(tree, buf) :
            /\ r.tag = "Ok"
            /\ tree' = r.tree
            /\ call' = [op |-> "add", arg |-> buf]
            /\ ret' = Returned(r)
    /\ UNCHANGED f2Vars

NextTexts == AddText \/ Filter

SpecTexts == InitTexts /\ [][NextTexts]_vars

\* The (waking span, parked span, timestamp) triples of the recorded
\* wakeups that are eligible for the output of the filter.
EligibleTriples ==
    {<< w.waking_span, w.parked_span, w.event.ts >> :
        w \in {x \in tree.wakeups : Eligible(x, ret.seen_ids)}}

\* The payload given to add is that of a recorded wakeup.
RecordedPayload(buf) == \E w \in tree.wakeups : w.event.buf = buf

\* C39: the recorded wakeups are a set keyed by (waking span, parked span,
\* timestamp): an add of a Wakeup payload identical to a recorded one
\* leaves the recorded wakeups as they were, and the number of Wakeup
\* payloads in the output of filter is the number of distinct eligible
\* triples.
C39_WakeupsKeyedByTriple ==
    /\ [](Filtered => Cardinality(WakeupPositions) = Cardinality(EligibleTriples))
    /\ [][(AddCalled /\ call'.arg.type = "Wakeup" /\ RecordedPayload(call'.arg))
            => tree' = tree]_vars

\* A render pass runs.
RenderPass == call'.op = "render" /\ call' # call

\* C40: once schedule_render has been called, under fair delivery of the
\* animation-frame callbacks a render pass eventually runs; the pass, before
\* which the flag is cleared, schedules the next one, so that render passes
\* recur for ever and every trigger (the start of main, a resize, the end
\* of a load) is followed by a later pass.
C40_RenderLoopLive ==
    /\ []<><< AnimationFrame >>_vars
    /\ (call.op \in {"main", "resize", "loadend", "change"}) ~> (call.op = "render")
    /\ [][RenderPass => (render_scheduled' /\ frames' = 1)]_vars

\* A render pass has run after the end of a load with another load pending,
\* read the spans loaded, and left the next pass scheduled.
C40_Witness ==
    /\ call.op = "render"
    /\ trace # << >>
    /\ ret.read = spans
    /\ render_scheduled
    /\ frames = 1
====
